---- MODULE Spec2Model ----
(***************************************************************************)
(* A model of the media-db data-access layer (DBController) of assets-mgr: *)
(* the relational store behind the Prisma client, the single-entity CRUD   *)
(* handlers with their result envelopes, and the generic pagination engine *)
(* getPaginated with its per-entity wrappers.                              *)
(*                                                                         *)
(* Every handler is an operator from (store, arguments, fault) to          *)
(* (store', outcome): `fault` is the index of the storage call of that     *)
(* handler at which the storage collaborator throws (0: none throws).      *)
(***************************************************************************)
EXTENDS Integers, Sequences, FiniteSets, TLC

VARIABLES
    db,      \* the relational store: tables, link table and id sequences
    last,    \* the CRUD call that just finished: operation, arguments, outcome
    pgPc,    \* the position of the getPaginated call in flight
    pgArgs,  \* the arguments of that call, as passed by the caller
    pgData,  \* the rows its findMany returned (meaningful after findMany)
    pgSeen,  \* what the store held when findMany ran, and whether it changed since
    pgIo,    \* storage calls issued by the call: transactions, findMany, count
    pgRes,   \* how the call ended: the envelope returned or the fault raised
    scan,    \* pages 1..n fetched one after another on an unchanged store
    procEnv, \* process.env: the settings the process was started with
    cfg,     \* the media-config call that just finished: function, outcome
    boot,    \* the process since start: configuration faults, storage queries
    calls    \* the create calls of two concurrent callers, each at its own step

vars ==
    <<db, last, pgPc, pgArgs, pgData, pgSeen, pgIo, pgRes, scan, procEnv, cfg, boot, calls>>
cfgVars == <<procEnv, cfg, boot>>

(***************************************************************************)
(* Bounds of the model.                                                    *)
(***************************************************************************)
MaxRecords == 3     \* records ever created, over all tables
MaxIdArg == 2       \* largest id a caller passes
MaxTags == 3        \* tags ever created while pages are fetched
MaxPage == 3        \* largest page number a caller passes
MaxPageSize == 2    \* largest explicit page size a caller passes

(***************************************************************************)
(* Program constants.                                                      *)
(***************************************************************************)
DEFAULT_PAGE_NUMBER == 1
DEFAULT_PAGE_SIZE == 25

(***************************************************************************)
(* JavaScript values passed where a number is expected: undefined (the     *)
(* parameter is left out), an integer v, or the non-integer v + 1/2.       *)
(***************************************************************************)
Undefined == [t |-> "undefined", v |-> 0]
Num(n) == [t |-> "int", v |-> n]
Frac(n) == [t |-> "frac", v |-> n]

\* A string passed where one is optional: its letters, <<>> for ''.
Text(s) == [t |-> "str", s |-> s]

\* `if (x)` on an optional argument: undefined, 0 and '' all count as not given.
Truthy(x) ==
    /\ x.t # "undefined"
    /\ ~(x.t = "int" /\ x.v = 0)
    /\ ~(x.t = "str" /\ x.s = <<>>)

\* `param = dflt` in a parameter list: the default replaces undefined only.
OrDefault(x, dflt) == IF x.t = "undefined" THEN Num(dflt) ELSE x

\* schemas.positiveInteger.parse(x): x when it is an integer >= 1, else a ZodError.
positiveInteger(x) ==
    IF x.t = "int" /\ x.v >= 1
    THEN [ok |-> TRUE, value |-> x.v]
    ELSE [ok |-> FALSE, value |-> 0]

(***************************************************************************)
(* Errors and their messages.                                              *)
(***************************************************************************)
KnownRequestError(code) == [class |-> "known", code |-> code]
PrismaValidationError == [class |-> "validation", code |-> ""]
ZodError == [class |-> "zod", code |-> ""]
\* The fault a storage call raises when the collaborator fails under it.
StorageFault == KnownRequestError("P2024")

generatePrismaErrorMessage(error) ==
    IF error.class = "known"
    THEN CASE error.code = "P2025" -> <<"Record not found">>
           [] error.code = "P2016" -> <<"Record does not exist">>
           [] error.code = "P2002" -> <<"Unique constraint violation">>
           [] OTHER -> <<"Database error", error.code>>
    ELSE IF error.class = "validation"
    THEN <<"Validation error">>
    ELSE <<"Unexpected error", error.class>>

(***************************************************************************)
(* Result envelopes. `data` is <<>> when absent and <<record>> when        *)
(* present; `flag` is the operation's created/found/updated/deleted.       *)
(***************************************************************************)
Envelope(success, flag, data, message) ==
    [success |-> success, flag |-> flag, data |-> data, message |-> message]

creationSuccessful(data, messagePrefix) ==
    Envelope(TRUE, TRUE, <<data>>, <<messagePrefix, "created successfully.">>)
creationFoundPrexisting(data, messagePrefix) ==
    Envelope(TRUE, FALSE, <<data>>, <<messagePrefix, "already exists.">>)
creationFailure(messagePrefix) ==
    Envelope(TRUE, FALSE, <<>>, <<messagePrefix, "not found.">>)
creationError(message) ==
    Envelope(FALSE, FALSE, <<>>, message)

retrievalSuccessful(data, messagePrefix) ==
    Envelope(TRUE, TRUE, <<data>>, <<messagePrefix, "retrieved successfully.">>)
retrievalNotFound(typeName) ==
    Envelope(TRUE, FALSE, <<>>, <<typeName, "not found.">>)
retrievalError(message) ==
    Envelope(FALSE, FALSE, <<>>, message)

updateSuccessful(data, messagePrefix) ==
    Envelope(TRUE, TRUE, <<data>>, <<messagePrefix, "updated successfully.">>)
updateNotFound(messagePrefix) ==
    Envelope(TRUE, FALSE, <<>>, <<messagePrefix, "not found.">>)
updateError(message) ==
    Envelope(FALSE, FALSE, <<>>, message)

deletionSuccessful(data, messagePrefix) ==
    Envelope(TRUE, TRUE, <<data>>, <<messagePrefix, "deleted successfully.">>)
\* Mutant: the not-found envelope of a delete with deleted set.
deletionNotFoundFlagged(messagePrefix) ==
    Envelope(TRUE, TRUE, <<>>, <<messagePrefix, "not found.">>)
deletionNotFound(messagePrefix) ==
    Envelope(TRUE, FALSE, <<>>, <<messagePrefix, "not found.">>)
deletionError(message) ==
    Envelope(FALSE, FALSE, <<>>, message)

\* What a handler yields: the store it leaves, and the envelope it returns
\* (out = "returned") or the fault it lets escape to the caller ("raised").
Returned(d, env) == [db |-> d, out |-> "returned", env |-> env]
\* A raised fault carries no envelope: `env` then only records the message of
\* the fault, and is never read as a returned envelope.
Raised(d, error) ==
    [db |-> d, out |-> "raised",
     env |-> Envelope(FALSE, FALSE, <<>>, <<"raised", error.class>>)]

(***************************************************************************)
(* The store: the five tables of schema.prisma, the implicit MediaFile-Tag *)
(* link table, and the autoincrement sequence of each table. A missing     *)
(* optional reference (Board.parentId, Pin.mediaFileId) is NoRef.          *)
(***************************************************************************)
NoRef == 0
Tables == {"tag", "website", "mediaFile", "board", "pin"}

\* Names of tags and boards, urls and hashes: short strings, as letter sequences.
Names == {<<"a">>, <<"b">>, <<"a", "b">>}
BoardNames == {<<"a">>, <<"b">>}
Urls == {<<"u">>, <<"v">>}
Hashes == {<<"h">>, <<"k">>}
NoName == <<>>

EmptyDb ==
    [tags |-> {}, websites |-> {}, mediaFiles |-> {}, boards |-> {}, pins |-> {},
     links |-> {}, seq |-> [t \in Tables |-> 1]]

Tag(id, name) == [id |-> id, name |-> name]
Website(id, url) == [id |-> id, url |-> url]
MediaFile(id, hash) == [id |-> id, hash |-> hash]
Board(id, name, websiteId, parentId) ==
    [id |-> id, name |-> name, websiteId |-> websiteId, parentId |-> parentId]
Pin(id, boardId, mediaFileId) ==
    [id |-> id, boardId |-> boardId, mediaFileId |-> mediaFileId]

\* findUnique yields at most one row; PickOne takes it out of the set of matches.
PickOne(S) == CHOOSE r \in S : \A q \in S : r.id <= q.id

\* The result of a write of the storage collaborator.
Wrote(d, row) == [ok |-> TRUE, db |-> d, row |-> <<row>>, error |-> StorageFault]
Refused(d, error) == [ok |-> FALSE, db |-> d, row |-> <<>>, error |-> error]

NextSeq(d, table) == [d.seq EXCEPT ![table] = @ + 1]

\* prisma.tag.create: Tag.name is @unique.
tagCreate(d, name) ==
    IF \E t \in d.tags : t.name = name
    THEN Refused(d, KnownRequestError("P2002"))
    ELSE LET row == Tag(d.seq["tag"], name)
         IN Wrote([d EXCEPT !.tags = @ \cup {row}, !.seq = NextSeq(d, "tag")], row)

\* Mutant: an update that does not enforce the unique index on Tag.name.
tagUpdateUnchecked(d, id, name) ==
    IF ~ \E t \in d.tags : t.id = id
    THEN Refused(d, KnownRequestError("P2025"))
    ELSE LET row == Tag(id, name)
         IN Wrote([d EXCEPT !.tags = {t \in @ : t.id # id} \cup {row}], row)

\* prisma.tag.update({where: {id}, data: {name}}).
tagUpdate(d, id, name) ==
    IF ~ \E t \in d.tags : t.id = id
    THEN Refused(d, KnownRequestError("P2025"))
    ELSE IF \E t \in d.tags : t.id # id /\ t.name = name
    THEN Refused(d, KnownRequestError("P2002"))
    ELSE LET row == Tag(id, name)
         IN Wrote([d EXCEPT !.tags = {t \in @ : t.id # id} \cup {row}], row)

\* Mutant: the tag is deleted and its rows of the link table stay.
tagDeleteKeepingLinks(d, id) ==
    IF ~ \E t \in d.tags : t.id = id
    THEN Refused(d, KnownRequestError("P2025"))
    ELSE LET row == PickOne({t \in d.tags : t.id = id})
         IN Wrote([d EXCEPT !.tags = @ \ {row}], row)

\* prisma.tag.delete: the rows of the implicit link table go with the tag.
tagDelete(d, id) ==
    IF ~ \E t \in d.tags : t.id = id
    THEN Refused(d, KnownRequestError("P2025"))
    ELSE LET row == PickOne({t \in d.tags : t.id = id})
         IN Wrote([d EXCEPT !.tags = @ \ {row},
                            !.links = {l \in @ : l[2] # id}], row)

\* prisma.website.create: Website.url is @unique.
websiteCreate(d, url) ==
    IF \E w \in d.websites : w.url = url
    THEN Refused(d, KnownRequestError("P2002"))
    ELSE LET row == Website(d.seq["website"], url)
         IN Wrote([d EXCEPT !.websites = @ \cup {row},
                            !.seq = NextSeq(d, "website")], row)

\* prisma.website.delete: Board.website is a required relation with no onDelete,
\* so the delete is restricted while a board references the website.
websiteDelete(d, id) ==
    IF ~ \E w \in d.websites : w.id = id
    THEN Refused(d, KnownRequestError("P2025"))
    ELSE IF \E b \in d.boards : b.websiteId = id
    THEN Refused(d, KnownRequestError("P2003"))
    ELSE LET row == PickOne({w \in d.websites : w.id = id})
         IN Wrote([d EXCEPT !.websites = @ \ {row}], row)

\* prisma.mediaFile.create: MediaFile.hash is @unique.
mediaFileCreate(d, hash) ==
    IF \E m \in d.mediaFiles : m.hash = hash
    THEN Refused(d, KnownRequestError("P2002"))
    ELSE LET row == MediaFile(d.seq["mediaFile"], hash)
         IN Wrote([d EXCEPT !.mediaFiles = @ \cup {row},
                            !.seq = NextSeq(d, "mediaFile")], row)

\* prisma.mediaFile.delete: Pin.mediaFile is optional with no onDelete, so the
\* pins keep existing with the reference set to null; the link rows go.
mediaFileDelete(d, id) ==
    IF ~ \E m \in d.mediaFiles : m.id = id
    THEN Refused(d, KnownRequestError("P2025"))
    ELSE LET row == PickOne({m \in d.mediaFiles : m.id = id})
         IN Wrote([d EXCEPT !.mediaFiles = @ \ {row},
                            !.pins = {IF p.mediaFileId = id
                                      THEN Pin(p.id, p.boardId, NoRef)
                                      ELSE p : p \in @},
                            !.links = {l \in @ : l[1] # id}], row)

\* The composite index @@unique([name, parentId, websiteId]): rows with a null
\* parentId never collide, since the database compares nulls as distinct.
BoardClash(d, id, name, websiteId, parentId) ==
    /\ parentId # NoRef
    /\ \E b \in d.boards :
          b.id # id /\ b.name = name /\ b.websiteId = websiteId /\ b.parentId = parentId

\* prisma.board.create with website (and optionally parent) connected.
boardCreate(d, name, websiteId, parentId) ==
    IF ~ \E w \in d.websites : w.id = websiteId
    THEN Refused(d, KnownRequestError("P2025"))
    ELSE IF parentId # NoRef /\ ~ \E b \in d.boards : b.id = parentId
    THEN Refused(d, KnownRequestError("P2025"))
    ELSE IF BoardClash(d, NoRef, name, websiteId, parentId)
    THEN Refused(d, KnownRequestError("P2002"))
    ELSE LET row == Board(d.seq["board"], name, websiteId, parentId)
         IN Wrote([d EXCEPT !.boards = @ \cup {row}, !.seq = NextSeq(d, "board")], row)

\* prisma.board.update({where: {id}, data: {...updateInfo}}): updateInfo is the
\* new name, or NoName when it leaves the name alone.
boardUpdate(d, id, updateInfo) ==
    IF ~ \E b \in d.boards : b.id = id
    THEN Refused(d, KnownRequestError("P2025"))
    ELSE LET old == PickOne({b \in d.boards : b.id = id})
             row == Board(id, IF updateInfo = NoName THEN old.name ELSE updateInfo,
                          old.websiteId, old.parentId)
         IN IF BoardClash(d, id, row.name, row.websiteId, row.parentId)
            THEN Refused(d, KnownRequestError("P2002"))
            ELSE Wrote([d EXCEPT !.boards = (@ \ {old}) \cup {row}], row)

\* Mutant: the delete of a board takes the tag of the same name with it.
boardDeleteWithTag(d, id) ==
    IF ~ \E b \in d.boards : b.id = id
    THEN Refused(d, KnownRequestError("P2025"))
    ELSE LET row == PickOne({b \in d.boards : b.id = id})
             gone == {t.id : t \in {u \in d.tags : u.name = row.name}}
         IN Wrote([d EXCEPT !.boards = @ \ {row},
                            !.tags = {t \in @ : t.id \notin gone},
                            !.links = {l \in @ : l[2] \notin gone}], row)

\* prisma.board.delete: Pin.board is required (restricted while a pin references
\* the board); Board.parent is optional (children get a null parentId).
boardDelete(d, id) ==
    IF ~ \E b \in d.boards : b.id = id
    THEN Refused(d, KnownRequestError("P2025"))
    ELSE IF \E p \in d.pins : p.boardId = id
    THEN Refused(d, KnownRequestError("P2003"))
    ELSE LET row == PickOne({b \in d.boards : b.id = id})
         IN Wrote([d EXCEPT !.boards = {IF b.parentId = id
                                        THEN Board(b.id, b.name, b.websiteId, NoRef)
                                        ELSE b : b \in @ \ {row}}], row)

\* prisma.pin.create with board (and optionally mediaFile) connected.
pinCreate(d, boardId, mediaFileId) ==
    IF ~ \E b \in d.boards : b.id = boardId
    THEN Refused(d, KnownRequestError("P2025"))
    ELSE IF mediaFileId # NoRef /\ ~ \E m \in d.mediaFiles : m.id = mediaFileId
    THEN Refused(d, KnownRequestError("P2025"))
    ELSE LET row == Pin(d.seq["pin"], boardId, mediaFileId)
         IN Wrote([d EXCEPT !.pins = @ \cup {row}, !.seq = NextSeq(d, "pin")], row)

(***************************************************************************)
(* DBController: the single-entity handlers. A fault thrown inside a       *)
(* handler's try block (a failed validation, a refused write, the storage  *)
(* fault injected at call number `fault`) ends in the handler's catch.     *)
(***************************************************************************)
Faulty == generatePrismaErrorMessage(StorageFault)
Invalid == generatePrismaErrorMessage(ZodError)

createWebSite(d, url, fault) ==
    IF fault = 1 THEN Returned(d, creationError(Faulty))
    ELSE LET preExisting == {w \in d.websites : w.url = url}
         IN IF preExisting # {}
            THEN Returned(d, creationFoundPrexisting(PickOne(preExisting), "Website"))
            ELSE IF fault = 2 THEN Returned(d, creationError(Faulty))
            ELSE LET w == websiteCreate(d, url)
                 IN IF w.ok
                    THEN Returned(w.db, creationSuccessful(w.row[1], "Website"))
                    ELSE Returned(d, creationError(generatePrismaErrorMessage(w.error)))

getWebSiteByID(d, id, fault) ==
    LET validatedID == positiveInteger(id)
    IN IF ~validatedID.ok THEN Returned(d, retrievalError(Invalid))
       ELSE IF fault = 1 THEN Returned(d, retrievalError(Faulty))
       ELSE LET preExisting == {w \in d.websites : w.id = validatedID.value}
            IN IF preExisting # {}
               THEN Returned(d, retrievalSuccessful(PickOne(preExisting), "Website"))
               ELSE Returned(d, retrievalNotFound("Website"))

getWebSiteByURL(d, url, fault) ==
    IF fault = 1 THEN Returned(d, retrievalError(Faulty))
    ELSE LET website == {w \in d.websites : w.url = url}
         IN IF website # {}
            THEN Returned(d, retrievalSuccessful(PickOne(website), "Website"))
            ELSE Returned(d, retrievalNotFound("Website"))

deleteWebsite(d, id, fault) ==
    LET validatedID == positiveInteger(id)
    IN IF ~validatedID.ok THEN Returned(d, deletionError(Invalid))
       ELSE IF fault = 1 THEN Returned(d, deletionError(Faulty))
       ELSE IF \E w \in d.websites : w.id = validatedID.value
       THEN IF fault = 2 THEN Returned(d, deletionError(Faulty))
            ELSE LET w == websiteDelete(d, validatedID.value)
                 IN IF w.ok
                    THEN Returned(w.db, deletionSuccessful(w.row[1], "Website"))
                    ELSE Returned(d, deletionError(generatePrismaErrorMessage(w.error)))
       ELSE Returned(d, deletionNotFound("Website"))

\* Mutant: the lookup by name alone, over the boards of all websites.
BoardsNamedAnywhere(d, name, websiteID) ==
    {b \in d.boards : b.name = name}

\* board.findUnique({where: {uniqueBoardNamesPerWebsite: {name, websiteID}}}):
\* the board of that website with that name.
BoardsNamed(d, name, websiteID) ==
    {b \in d.boards : b.name = name /\ b.websiteId = websiteID}

\* The tail of createWebsiteBoard, from board.create on; `k` storage calls
\* were issued before it.
CreateBoardAndTag(d, name, websiteId, parentId, k, fault) ==
    IF fault = k + 1 THEN Returned(d, creationError(Faulty))
    ELSE LET b == boardCreate(d, name, websiteId, parentId)
         IN IF ~b.ok
            THEN Returned(d, creationError(generatePrismaErrorMessage(b.error)))
            ELSE IF fault = k + 2 THEN Returned(b.db, creationError(Faulty))
            ELSE IF \E t \in b.db.tags : t.name = name
            THEN Returned(b.db, creationSuccessful(b.row[1], "Board"))
            ELSE IF fault = k + 3 THEN Returned(b.db, creationError(Faulty))
            ELSE LET t == tagCreate(b.db, name)
                 IN IF t.ok
                    THEN Returned(t.db, creationSuccessful(b.row[1], "Board"))
                    ELSE Returned(b.db,
                                  creationError(generatePrismaErrorMessage(t.error)))

\* parentBoardName is optional: undefined or a string.
createWebsiteBoard(d, websiteID, name, parentBoardName, fault) ==
    LET validatedWebsiteID == positiveInteger(websiteID)
    IN IF ~validatedWebsiteID.ok THEN Returned(d, creationError(Invalid))
       ELSE IF fault = 1 THEN Returned(d, creationError(Faulty))
       ELSE IF ~ \E w \in d.websites : w.id = validatedWebsiteID.value
       THEN Returned(d, creationFailure("Website"))
       ELSE IF fault = 2 THEN Returned(d, creationError(Faulty))
       ELSE LET preExisting == BoardsNamed(d, name, validatedWebsiteID.value)
            IN IF preExisting # {}
               THEN Returned(d, creationFoundPrexisting(PickOne(preExisting),
                                                        "Website/Board pair"))
               ELSE IF Truthy(parentBoardName)
               THEN IF fault = 3 THEN Returned(d, creationError(Faulty))
                    ELSE LET parentBoard ==
                                 BoardsNamed(d, parentBoardName.s, validatedWebsiteID.value)
                         IN IF parentBoard = {}
                            THEN Returned(d, creationFailure("Parent Board on Website"))
                            ELSE CreateBoardAndTag(d, name, validatedWebsiteID.value,
                                                   PickOne(parentBoard).id, 3, fault)
               ELSE CreateBoardAndTag(d, name, validatedWebsiteID.value, NoRef, 2, fault)

getWebsiteBoard(d, websiteID, boardName, fault) ==
    LET validatedWebsiteID == positiveInteger(websiteID)
    IN IF ~validatedWebsiteID.ok THEN Returned(d, retrievalError(Invalid))
       ELSE IF fault = 1 THEN Returned(d, retrievalError(Faulty))
       ELSE LET board == BoardsNamed(d, boardName, validatedWebsiteID.value)
            IN IF board # {}
               THEN Returned(d, retrievalSuccessful(PickOne(board), "Board"))
               ELSE Returned(d, retrievalNotFound("Website/Board pair"))

\* Mutant: an upsert that creates nothing when the tag is missing.
tagUpsertWithoutCreate(d, name) ==
    IF \E t \in d.tags : t.name = name
    THEN Wrote(d, PickOne({t \in d.tags : t.name = name}))
    ELSE Wrote(d, Tag(d.seq["tag"], name))

\* tag.upsert({where: {name}, update: {}, create: {name}}).
tagUpsert(d, name) ==
    IF \E t \in d.tags : t.name = name
    THEN Wrote(d, PickOne({t \in d.tags : t.name = name}))
    ELSE tagCreate(d, name)

updateWebsiteBoard(d, websiteID, boardName, updateInfo, fault) ==
    LET validatedWebsiteID == positiveInteger(websiteID)
    IN IF ~validatedWebsiteID.ok THEN Returned(d, updateError(Invalid))
       ELSE IF fault = 1 THEN Returned(d, updateError(Faulty))
       ELSE LET board == BoardsNamed(d, boardName, validatedWebsiteID.value)
            IN IF board = {}
               THEN Returned(d, updateNotFound("Website/Board pair"))
               ELSE IF fault = 2 THEN Returned(d, updateError(Faulty))
               ELSE LET u == boardUpdate(d, PickOne(board).id, updateInfo)
                    IN IF ~u.ok
                       THEN Returned(d, updateError(generatePrismaErrorMessage(u.error)))
                       ELSE IF PickOne(board).name # u.row[1].name
                       THEN IF fault = 3 THEN Returned(u.db, updateError(Faulty))
                            ELSE LET t == tagUpsert(u.db, u.row[1].name)
                                 IN IF t.ok
                                    THEN Returned(t.db, updateSuccessful(u.row[1], "Board"))
                                    ELSE Returned(u.db, updateError(
                                             generatePrismaErrorMessage(t.error)))
                       ELSE Returned(u.db, updateSuccessful(u.row[1], "Board"))

deleteWebsiteBoard(d, websiteID, boardName, fault) ==
    LET validatedWebsiteID == positiveInteger(websiteID)
    IN IF ~validatedWebsiteID.ok THEN Returned(d, deletionError(Invalid))
       ELSE IF fault = 1 THEN Returned(d, deletionError(Faulty))
       ELSE IF ~ \E w \in d.websites : w.id = validatedWebsiteID.value
       THEN Returned(d, deletionNotFound("Website"))
       ELSE IF fault = 2 THEN Returned(d, deletionError(Faulty))
       ELSE LET board == BoardsNamed(d, boardName, validatedWebsiteID.value)
            IN IF board = {}
               THEN Returned(d, deletionNotFound("Website/Board pair"))
               ELSE IF fault = 3 THEN Returned(d, deletionError(Faulty))
               ELSE LET b == boardDelete(d, PickOne(board).id)
                    IN IF b.ok
                       THEN Returned(b.db, deletionSuccessful(b.row[1], "Board"))
                       ELSE Returned(d, deletionError(generatePrismaErrorMessage(b.error)))

createBoardPin(d, boardID, mediaFileID, fault) ==
    LET validatedBoardID == positiveInteger(boardID)
        validatedMediaFileID == positiveInteger(mediaFileID)
        Create(mediaFileId, k) ==
            IF fault = k + 1 THEN Returned(d, creationError(Faulty))
            ELSE LET p == pinCreate(d, validatedBoardID.value, mediaFileId)
                 IN IF p.ok
                    THEN Returned(p.db, creationSuccessful(p.row[1], "Pin"))
                    ELSE Returned(d, creationError(generatePrismaErrorMessage(p.error)))
    IN IF ~validatedBoardID.ok THEN Returned(d, creationError(Invalid))
       ELSE IF fault = 1 THEN Returned(d, creationError(Faulty))
       ELSE IF ~ \E b \in d.boards : b.id = validatedBoardID.value
       THEN Returned(d, creationFailure("Board"))
       ELSE IF Truthy(mediaFileID)
       THEN IF ~validatedMediaFileID.ok THEN Returned(d, creationError(Invalid))
            ELSE IF fault = 2 THEN Returned(d, creationError(Faulty))
            ELSE IF ~ \E m \in d.mediaFiles : m.id = validatedMediaFileID.value
            THEN Returned(d, creationFailure("Media File"))
            ELSE Create(validatedMediaFileID.value, 2)
       ELSE Create(NoRef, 1)

createMediaFile(d, hash, fault) ==
    IF fault = 1 THEN Returned(d, creationError(Faulty))
    ELSE LET preExisting == {m \in d.mediaFiles : m.hash = hash}
         IN IF preExisting # {}
            THEN Returned(d, creationFoundPrexisting(PickOne(preExisting), "MediaFile"))
            ELSE IF fault = 2 THEN Returned(d, creationError(Faulty))
            ELSE LET m == mediaFileCreate(d, hash)
                 IN IF m.ok
                    THEN Returned(m.db, creationSuccessful(m.row[1], "MediaFile"))
                    ELSE Returned(d, creationError(generatePrismaErrorMessage(m.error)))

getMediaFileByID(d, mediaFileID, fault) ==
    LET validatedMediaFileID == positiveInteger(mediaFileID)
    IN IF ~validatedMediaFileID.ok THEN Returned(d, retrievalError(Invalid))
       ELSE IF fault = 1 THEN Returned(d, retrievalError(Faulty))
       ELSE LET mediaFile == {m \in d.mediaFiles : m.id = validatedMediaFileID.value}
            IN IF mediaFile # {}
               THEN Returned(d, retrievalSuccessful(PickOne(mediaFile), "MediaFile"))
               ELSE Returned(d, retrievalNotFound("MediaFile"))

deleteMediaFile(d, mediaFileID, fault) ==
    LET validatedMediaFileID == positiveInteger(mediaFileID)
    IN IF ~validatedMediaFileID.ok THEN Returned(d, deletionError(Invalid))
       ELSE IF fault = 1 THEN Returned(d, deletionError(Faulty))
       ELSE IF ~ \E m \in d.mediaFiles : m.id = validatedMediaFileID.value
       THEN Returned(d, deletionNotFound("MediaFile"))
       ELSE IF fault = 2 THEN Returned(d, deletionError(Faulty))
       ELSE LET m == mediaFileDelete(d, validatedMediaFileID.value)
            IN IF m.ok
               THEN Returned(m.db, deletionSuccessful(m.row[1], "MediaFile"))
               ELSE Returned(d, deletionError(generatePrismaErrorMessage(m.error)))

\* Mutant: the tag is created without looking for a pre-existing one.
createTagUnchecked(d, name, fault) ==
    IF fault = 2 THEN Returned(d, creationError(Faulty))
    ELSE LET t == tagCreate(d, name)
         IN IF t.ok
            THEN Returned(t.db, creationSuccessful(t.row[1], "Tag"))
            ELSE Returned(d, creationError(generatePrismaErrorMessage(t.error)))

createTag(d, name, fault) ==
    IF fault = 1 THEN Returned(d, creationError(Faulty))
    ELSE LET preExisting == {t \in d.tags : t.name = name}
         IN IF preExisting # {}
            THEN Returned(d, creationFoundPrexisting(PickOne(preExisting), "Tag"))
            ELSE IF fault = 2 THEN Returned(d, creationError(Faulty))
            ELSE LET t == tagCreate(d, name)
                 IN IF t.ok
                    THEN Returned(t.db, creationSuccessful(t.row[1], "Tag"))
                    ELSE Returned(d, creationError(generatePrismaErrorMessage(t.error)))

\* tagID defaults to -1, and is validated before the try block is entered.
getTagByID(d, tagID, fault) ==
    LET validatedTagID == positiveInteger(OrDefault(tagID, -1))
    IN IF ~validatedTagID.ok THEN Raised(d, ZodError)
       ELSE IF fault = 1 THEN Returned(d, retrievalError(Faulty))
       ELSE LET tag == {t \in d.tags : t.id = validatedTagID.value}
            IN IF tag # {}
               THEN Returned(d, retrievalSuccessful(PickOne(tag), "Tag"))
               ELSE Returned(d, retrievalNotFound("Tag"))

getTagByName(d, tagName, fault) ==
    IF fault = 1 THEN Returned(d, retrievalError(Faulty))
    ELSE LET tag == {t \in d.tags : t.name = tagName}
         IN IF tag # {}
            THEN Returned(d, retrievalSuccessful(PickOne(tag), "Tag"))
            ELSE Returned(d, retrievalNotFound("Tag"))

updateTag(d, tagID, newName, fault) ==
    LET validatedTagID == positiveInteger(tagID)
    IN IF ~validatedTagID.ok THEN Returned(d, updateError(Invalid))
       ELSE IF fault = 1 THEN Returned(d, updateError(Faulty))
       ELSE IF ~ \E t \in d.tags : t.id = validatedTagID.value
       THEN Returned(d, updateNotFound("Tag"))
       ELSE IF fault = 2 THEN Returned(d, updateError(Faulty))
       ELSE LET t == tagUpdate(d, validatedTagID.value, newName)
            IN IF t.ok
               THEN Returned(t.db, updateSuccessful(t.row[1], "Tag"))
               ELSE Returned(d, updateError(generatePrismaErrorMessage(t.error)))

\* Mutant: the tag is deleted without looking it up first.
deleteTagUnchecked(d, tagID, fault) ==
    LET validatedTagID == positiveInteger(tagID)
    IN IF ~validatedTagID.ok THEN Returned(d, deletionError(Invalid))
       ELSE IF fault = 2 THEN Returned(d, deletionError(Faulty))
       ELSE LET t == tagDelete(d, validatedTagID.value)
            IN IF t.ok
               THEN Returned(t.db, deletionSuccessful(t.row[1], "Tag"))
               ELSE Returned(d, deletionError(generatePrismaErrorMessage(t.error)))

deleteTag(d, tagID, fault) ==
    LET validatedTagID == positiveInteger(tagID)
    IN IF ~validatedTagID.ok THEN Returned(d, deletionError(Invalid))
       ELSE IF fault = 1 THEN Returned(d, deletionError(Faulty))
       ELSE IF ~ \E t \in d.tags : t.id = validatedTagID.value
       THEN Returned(d, deletionNotFound("Tag"))
       ELSE IF fault = 2 THEN Returned(d, deletionError(Faulty))
       ELSE LET t == tagDelete(d, validatedTagID.value)
            IN IF t.ok
               THEN Returned(t.db, deletionSuccessful(t.row[1], "Tag"))
               ELSE Returned(d, deletionError(generatePrismaErrorMessage(t.error)))

(***************************************************************************)
(* The pagination engine, bound to the Tag model by getPaginatedTags.      *)
(***************************************************************************)
\* The where clauses the tag queries build: {} and {name: {contains: s}}.
WhereAll == [op |-> "all", s |-> <<>>]
WhereContains(s) == [op |-> "contains", s |-> s]

Contains(name, s) ==
    \E i \in 1..Len(name) :
        i + Len(s) - 1 <= Len(name) /\ SubSeq(name, i, i + Len(s) - 1) = s

MatchesWhere(row, where) ==
    IF where.op = "all" THEN TRUE ELSE Contains(row.name, where.s)

\* DEFAULT_TAG_ORDER_BY: {name: "asc"}.
LetterRank(c) == CASE c = "a" -> 1 [] c = "b" -> 2 [] OTHER -> 3
RECURSIVE NameLeq(_, _)
NameLeq(x, y) ==
    IF x = <<>> THEN TRUE
    ELSE IF y = <<>> THEN FALSE
    ELSE IF LetterRank(Head(x)) # LetterRank(Head(y))
    THEN LetterRank(Head(x)) < LetterRank(Head(y))
    ELSE NameLeq(Tail(x), Tail(y))

RECURSIVE OrderByName(_)
OrderByName(S) ==
    IF S = {} THEN <<>>
    ELSE LET m == CHOOSE x \in S :
                     \A y \in S : NameLeq(x.name, y.name) /\ (x.name = y.name => x.id <= y.id)
         IN <<m>> \o OrderByName(S \ {m})

Min(a, b) == IF a <= b THEN a ELSE b

\* The order of rows fetched with no orderBy: as stored, by id.
RECURSIVE OrderById(_)
OrderById(S) ==
    IF S = {} THEN <<>>
    ELSE LET m == CHOOSE x \in S : \A y \in S : x.id <= y.id
         IN <<m>> \o OrderById(S \ {m})

\* Mutant: findMany without the orderBy, the rows coming in id order.
tagFindManyUnordered(d, where, skip, take) ==
    LET rows == OrderById({t \in d.tags : MatchesWhere(t, where)})
    IN SubSeq(rows, skip + 1, Min(skip + take, Len(rows)))

\* model.findMany({where, orderBy, skip, take}) on the Tag table.
tagFindMany(d, where, skip, take) ==
    LET rows == OrderByName({t \in d.tags : MatchesWhere(t, where)})
    IN SubSeq(rows, skip + 1, Min(skip + take, Len(rows)))

\* model.count({where}) on the Tag table.
tagCount(d, where) == Cardinality({t \in d.tags : MatchesWhere(t, where)})

\* Mutant: only the page is validated, the page size passes as it is.
validatePageOnly(page, pageSize) ==
    LET pageNum == positiveInteger(page)
    IN [ok |-> pageNum.ok, pageNum |-> pageNum.value, numPerPage |-> pageSize.v]

validatePaginationParams(page, pageSize) ==
    LET pageNum == positiveInteger(page)
        numPerPage == positiveInteger(pageSize)
    IN [ok |-> pageNum.ok /\ numPerPage.ok,
        pageNum |-> pageNum.value, numPerPage |-> numPerPage.value]

\* getPaginatedTags and getPaginated both default page and pageSize.
PgParams(args) ==
    validatePaginationParams(OrDefault(args.page, DEFAULT_PAGE_NUMBER),
                             OrDefault(args.pageSize, DEFAULT_PAGE_SIZE))

\* Mutants: a skip that starts one page late, a take one row too long.
PgSkipFromPage(pageNum, numPerPage) == pageNum * numPerPage
PgTakeOneMore(pageNum, numPerPage) == numPerPage + 1

\* The skip and take getPaginated passes to findMany.
PgSkip(pageNum, numPerPage) == (pageNum - 1) * numPerPage
PgTake(pageNum, numPerPage) == numPerPage

\* The envelopes of getPaginated: `hasData` tells an empty page from no data.
PgSuccess(data, total, pageNum, numPerPage) ==
    [success |-> TRUE, hasData |-> TRUE, data |-> data, total |-> total,
     page |-> pageNum, pageSize |-> numPerPage,
     message |-> <<"Data retrieved successfully">>]
\* Mutant: the failure envelope with page and pageSize swapped.
PgFailureSwapped(error, pageNum, numPerPage) ==
    [success |-> FALSE, hasData |-> FALSE, data |-> <<>>, total |-> 0,
     page |-> numPerPage, pageSize |-> pageNum,
     message |-> generatePrismaErrorMessage(error)]

PgFailure(error, pageNum, numPerPage) ==
    [success |-> FALSE, hasData |-> FALSE, data |-> <<>>, total |-> 0,
     page |-> pageNum, pageSize |-> numPerPage,
     message |-> generatePrismaErrorMessage(error)]
PgNone ==
    [success |-> FALSE, hasData |-> FALSE, data |-> <<>>, total |-> 0,
     page |-> 0, pageSize |-> 0, message |-> <<>>]

NoIo == [txn |-> 0, findMany |-> 0, count |-> 0]
NoSeen == [total |-> 0, dirty |-> FALSE, fault |-> FALSE]
NoScan == [on |-> FALSE, where |-> WhereAll, pageSize |-> 0, upto |-> 0,
           sum |-> 0, totals |-> {}]
NoCall == [op |-> "none", args |-> <<>>, out |-> "returned",
           env |-> Envelope(TRUE, FALSE, <<>>, <<>>)]
NoArgs == [where |-> WhereAll, page |-> Undefined, pageSize |-> Undefined]

\* Mutant: the total is the size of the page.
PgTotalOfPage(data, count) == Len(data)

\* The total getPaginated reports: the result of the count query.
PgTotal(data, count) == count

\* The run of pages 1..n on an unchanged store, after a call returned `env`.
ScanAfter(sc, args, env, dirty) ==
    IF dirty THEN NoScan
    ELSE IF env.page = 1
    THEN [on |-> TRUE, where |-> args.where, pageSize |-> env.pageSize, upto |-> 1,
          sum |-> Len(env.data), totals |-> {env.total}]
    ELSE IF sc.on /\ sc.where = args.where /\ sc.pageSize = env.pageSize
            /\ env.page = sc.upto + 1
    THEN [sc EXCEPT !.upto = env.page, !.sum = @ + Len(env.data),
                    !.totals = @ \cup {env.total}]
    ELSE NoScan

(***************************************************************************)
(* The tags of media files: updateMediaFileTags and migrateMediaFileTag.   *)
(* Both return bare records, not envelopes, and raise their faults. The    *)
(* link table holds one <<mediaFileId, tagId>> pair per association.       *)
(***************************************************************************)
\* schemas.nonEmptyArrayOfPositiveIntegers.parse(xs), on a sequence of values.
nonEmptyArrayOfPositiveIntegers(xs) ==
    IF Len(xs) >= 1 /\ \A i \in 1..Len(xs) : positiveInteger(xs[i]).ok
    THEN [ok |-> TRUE, value |-> [i \in 1..Len(xs) |-> xs[i].v]]
    ELSE [ok |-> FALSE, value |-> <<>>]

\* schemas.nonEmptyString.parse(s), on a string given as a letter sequence.
nonEmptyString(s) ==
    IF Len(s) >= 1 THEN [ok |-> TRUE, value |-> s] ELSE [ok |-> FALSE, value |-> <<>>]

\* What a method that returns rows (no envelope) hands to its caller.
Rows(data) == [data |-> data]

\* The tag ids linked to a media file, and the media files linked to a tag.
TagsOf(d, mediaFileId) == {l[2] : l \in {k \in d.links : k[1] = mediaFileId}}
FilesOf(d, tagId) == {l[1] : l \in {k \in d.links : k[2] = tagId}}

\* Mutant: the listed tags are connected and the previous ones stay.
mediaFileAddTags(d, id, tagIds) ==
    IF ~ \E m \in d.mediaFiles : m.id = id
    THEN Refused(d, KnownRequestError("P2025"))
    ELSE IF \E i \in 1..Len(tagIds) : ~ \E t \in d.tags : t.id = tagIds[i]
    THEN Refused(d, KnownRequestError("P2025"))
    ELSE Wrote([d EXCEPT !.links = @ \cup {<<id, tagIds[i]>> : i \in 1..Len(tagIds)}],
               PickOne({m \in d.mediaFiles : m.id = id}))

\* prisma.mediaFile.update({where: {id}, data: {tags: {set: [...]}}}): the
\* media file and every listed tag must exist.
mediaFileSetTags(d, id, tagIds) ==
    IF ~ \E m \in d.mediaFiles : m.id = id
    THEN Refused(d, KnownRequestError("P2025"))
    ELSE IF \E i \in 1..Len(tagIds) : ~ \E t \in d.tags : t.id = tagIds[i]
    THEN Refused(d, KnownRequestError("P2025"))
    ELSE Wrote([d EXCEPT !.links = {l \in @ : l[1] # id}
                              \cup {<<id, tagIds[i]>> : i \in 1..Len(tagIds)}],
               PickOne({m \in d.mediaFiles : m.id = id}))

\* prisma.mediaFile.update({where: {id}, data: {tags: {disconnect: {id: old},
\* connect: {id: new}}}}): the tag to connect must exist.
mediaFileMoveTag(d, id, oldTagId, newTagId) ==
    IF ~ \E m \in d.mediaFiles : m.id = id
    THEN Refused(d, KnownRequestError("P2025"))
    ELSE IF ~ \E t \in d.tags : t.id = newTagId
    THEN Refused(d, KnownRequestError("P2025"))
    ELSE Wrote([d EXCEPT !.links = (@ \ {<<id, oldTagId>>}) \cup {<<id, newTagId>>}],
               PickOne({m \in d.mediaFiles : m.id = id}))

\* prisma.$transaction([...updates]): the updates in order, all or none.
RECURSIVE transaction(_, _, _, _)
transaction(d, ids, oldTagId, newTagId) ==
    IF ids = <<>> THEN Wrote(d, <<>>)
    ELSE LET u == mediaFileMoveTag(d, Head(ids), oldTagId, newTagId)
         IN IF ~u.ok THEN u
            ELSE LET rest == transaction(u.db, Tail(ids), oldTagId, newTagId)
                 IN IF ~rest.ok THEN rest
                    ELSE Wrote(rest.db, <<u.row[1]>> \o rest.row[1])

\* Mutant: the from-tag stays connected.
migrateKeepingOld(d, fromTagID, toTagID, fault) ==
    LET ids == OrderById({m \in d.mediaFiles : m.id \in FilesOf(d, fromTagID.v)})
    IN Returned([d EXCEPT !.links = @ \cup {<<ids[i].id, toTagID.v>> : i \in 1..Len(ids)}],
                Rows(ids))

\* No try block: a failed validation and a storage fault are both raised.
migrateMediaFileTag(d, fromTagID, toTagID, fault) ==
    LET validatedOldTagID == positiveInteger(fromTagID)
        validatedNewTagID == positiveInteger(toTagID)
    IN IF ~validatedOldTagID.ok \/ ~validatedNewTagID.ok THEN Raised(d, ZodError)
       ELSE IF fault = 1 THEN Raised(d, StorageFault)
       ELSE LET mediaFilesWithOldTag ==
                    OrderById({m \in d.mediaFiles :
                                   m.id \in FilesOf(d, validatedOldTagID.value)})
                mediaFileIDs == [i \in 1..Len(mediaFilesWithOldTag) |->
                                     mediaFilesWithOldTag[i].id]
            IN IF fault = 2 THEN Raised(d, StorageFault)
               ELSE LET t == transaction(d, mediaFileIDs, validatedOldTagID.value,
                                         validatedNewTagID.value)
                    IN IF t.ok THEN Returned(t.db, Rows(t.row[1]))
                       ELSE Raised(d, t.error)

\* Validation runs before the try block; the catch re-raises (handlePrismaError).
updateMediaFileTags(d, mediaFileID, newTagIDs, fault) ==
    LET validMediaFileID == positiveInteger(mediaFileID)
        validTags == nonEmptyArrayOfPositiveIntegers(newTagIDs)
    IN IF ~validMediaFileID.ok \/ ~validTags.ok THEN Raised(d, ZodError)
       ELSE IF fault = 1 THEN Raised(d, StorageFault)
       ELSE LET u == mediaFileSetTags(d, validMediaFileID.value, validTags.value)
            IN IF u.ok THEN Returned(u.db, Rows(u.row)) ELSE Raised(d, u.error)

(***************************************************************************)
(* The public paginated queries: each builds a where clause and forwards   *)
(* to the wrapper of its model, which forwards to getPaginated. Here a     *)
(* call runs from entry to return with no other call in between.           *)
(***************************************************************************)
\* The where clauses on media files and pins; `s` carries the ids they name.
WhereUntagged == [op |-> "untagged", s |-> <<>>]
WhereHasTags(tagIds) == [op |-> "hasTags", s |-> tagIds]
WhereBoard(boardId) == [op |-> "board", s |-> <<boardId>>]

\* The rows of a model that a where clause selects.
Selected(d, model, where) ==
    CASE model = "tag" -> {t \in d.tags : MatchesWhere(t, where)}
      [] model = "website" -> d.websites
      [] model = "pin" ->
            IF where.op = "board" THEN {p \in d.pins : p.boardId = where.s[1]}
            ELSE d.pins
      [] model = "mediaFile" ->
            IF where.op = "untagged"
            THEN {m \in d.mediaFiles : TagsOf(d, m.id) = {}}
            ELSE IF where.op = "hasTags"
            THEN {m \in d.mediaFiles :
                      \A i \in 1..Len(where.s) : where.s[i] \in TagsOf(d, m.id)}
            ELSE d.mediaFiles

\* The order findMany returns them in: tags by name, the rest as stored.
Ordered(d, model, where) ==
    IF model = "tag" THEN OrderByName(Selected(d, model, where))
    ELSE OrderById(Selected(d, model, where))

findMany(d, model, where, skip, take) ==
    LET rows == Ordered(d, model, where)
    IN SubSeq(rows, skip + 1, Min(skip + take, Len(rows)))

count(d, model, where) == Cardinality(Selected(d, model, where))

\* getPaginated: validation before the try block, then the transaction with
\* findMany and count (storage calls 1..3) inside it.
getPaginated(d, model, where, page, pageSize, fault) ==
    LET v == PgParams([where |-> where, page |-> page, pageSize |-> pageSize])
    IN IF ~v.ok THEN Raised(d, ZodError)
       ELSE IF fault \in 1..3
       THEN Returned(d, PgFailure(StorageFault, v.pageNum, v.numPerPage))
       ELSE LET data == findMany(d, model, where, PgSkip(v.pageNum, v.numPerPage),
                                 PgTake(v.pageNum, v.numPerPage))
            IN Returned(d, PgSuccess(data, PgTotal(data, count(d, model, where)),
                                     v.pageNum, v.numPerPage))

\* The per-model wrappers default page and pageSize and bind the model.
getPaginatedTags(d, where, page, pageSize, fault) ==
    getPaginated(d, "tag", where, OrDefault(page, DEFAULT_PAGE_NUMBER),
                 OrDefault(pageSize, DEFAULT_PAGE_SIZE), fault)
getPaginatedMediaFiles(d, where, page, pageSize, fault) ==
    getPaginated(d, "mediaFile", where, OrDefault(page, DEFAULT_PAGE_NUMBER),
                 OrDefault(pageSize, DEFAULT_PAGE_SIZE), fault)
getPaginatedPins(d, where, page, pageSize, fault) ==
    getPaginated(d, "pin", where, OrDefault(page, DEFAULT_PAGE_NUMBER),
                 OrDefault(pageSize, DEFAULT_PAGE_SIZE), fault)
getPaginatedWebsites(d, where, page, pageSize, fault) ==
    getPaginated(d, "website", where, OrDefault(page, DEFAULT_PAGE_NUMBER),
                 OrDefault(pageSize, DEFAULT_PAGE_SIZE), fault)

getAllWebsites(d, fault) ==
    getPaginatedWebsites(d, WhereAll, Num(DEFAULT_PAGE_NUMBER), Num(DEFAULT_PAGE_SIZE),
                         fault)

\* sampleSize keeps its default, which genTagInclude accepts.
getAllTags(d, page, pageSize, fault) ==
    getPaginatedTags(d, WhereAll, OrDefault(page, DEFAULT_PAGE_NUMBER),
                     OrDefault(pageSize, DEFAULT_PAGE_SIZE), fault)

\* substring defaults to '', which fails validation; no try block.
searchTags(d, substring, page, pageSize, fault) ==
    LET validSearchTerm == nonEmptyString(substring)
    IN IF ~validSearchTerm.ok THEN Raised(d, ZodError)
       ELSE getPaginatedTags(d, WhereContains(validSearchTerm.value),
                             OrDefault(page, DEFAULT_PAGE_NUMBER),
                             OrDefault(pageSize, DEFAULT_PAGE_SIZE), fault)

getUntaggedMediaFiles(d, page, pageSize, fault) ==
    getPaginatedMediaFiles(d, WhereUntagged, OrDefault(page, DEFAULT_PAGE_NUMBER),
                           OrDefault(pageSize, DEFAULT_PAGE_SIZE), fault)

\* `page = DEFAULT_PAGE_SIZE` in the parameter list.
getMediaFilesWithTags(d, tagIDs, page, pageSize, fault) ==
    LET validTags == nonEmptyArrayOfPositiveIntegers(tagIDs)
    IN IF ~validTags.ok THEN Raised(d, ZodError)
       ELSE getPaginatedMediaFiles(d, WhereHasTags(validTags.value),
                                   OrDefault(page, DEFAULT_PAGE_SIZE),
                                   OrDefault(pageSize, DEFAULT_PAGE_SIZE), fault)

\* Everything runs inside one try block whose catch re-raises; the board
\* lookup is storage call 1, the calls of getPaginated follow it.
getBoardPins(d, boardID, page, pageSize, fault) ==
    LET validatedBoardID == positiveInteger(boardID)
    IN IF ~validatedBoardID.ok THEN Raised(d, ZodError)
       ELSE IF fault = 1 THEN Raised(d, StorageFault)
       ELSE IF ~ \E b \in d.boards : b.id = validatedBoardID.value
       THEN Raised(d, [class |-> "error", code |-> "Board not found"])
       ELSE getPaginatedPins(d, WhereBoard(validatedBoardID.value),
                             OrDefault(page, DEFAULT_PAGE_NUMBER),
                             OrDefault(pageSize, DEFAULT_PAGE_SIZE),
                             IF fault = 0 THEN 0 ELSE fault - 1)

(***************************************************************************)
(* media-config: process.env and the configuration getters. A variable of  *)
(* the environment is unset (undefined) or set to a string, possibly "".   *)
(***************************************************************************)
MaxQueries == 2     \* storage queries a process issues

Unset == [set |-> FALSE, value |-> ""]
Str(s) == [set |-> TRUE, value |-> s]

\* Mutant: only an unset variable counts as missing, an empty one passes.
FalsyUnsetOnly(v) == ~v.set

\* `!process.env[name]`: undefined and the empty string are both falsy.
Falsy(v) == ~v.set \/ v.value = ""

requiredVars == <<"MEDIA_DB_URL", "MEDIA_FILES_DIR">>
optionalVars == <<"PORT", "NODE_ENV">>

\* The environments a process is started with.
Environments ==
    [MEDIA_DB_URL : {Unset, Str(""), Str("file:./test.db")},
     MEDIA_FILES_DIR : {Unset, Str(""), Str("/tmp/test-media")},
     PORT : {Unset, Str("8080"), Str("abc")},
     NODE_ENV : {Unset, Str("production"), Str("test")}]
ConfiguredEnv ==
    [MEDIA_DB_URL |-> Str("file:./test.db"), MEDIA_FILES_DIR |-> Str("/tmp/test-media"),
     PORT |-> Unset, NODE_ENV |-> Unset]

\* The loop over varNames of validateEnvironment: one message per falsy variable.
RECURSIVE MessagesFor(_, _, _)
MessagesFor(e, varNames, text) ==
    IF varNames = <<>> THEN <<>>
    ELSE (IF Falsy(e[Head(varNames)]) THEN <<<<text, Head(varNames)>>>> ELSE <<>>)
         \o MessagesFor(e, Tail(varNames), text)

\* The warnings are written to the console and are no part of the result.
validateEnvironment(e) ==
    LET errors == MessagesFor(e, requiredVars, "Missing required environment variable:")
        warnings == MessagesFor(e, optionalVars, "Optional environment variable not set:")
    IN [valid |-> Len(errors) = 0, errors |-> errors]

\* What a configuration getter yields: its value, or the Error it throws.
Gave(value) == [out |-> "returned", value |-> value, message |-> ""]
Threw(message) == [out |-> "threw", value |-> [none |-> TRUE], message |-> message]

validateEnv(e, name, message) ==
    IF Falsy(e[name]) THEN Threw(message) ELSE Gave(e[name].value)

getDatabaseConfig(e, environment) ==
    LET url == validateEnv(e, "MEDIA_DB_URL",
                   "Database URL is not configured. Please set MEDIA_DB_URL environment variable.")
    IN IF url.out = "threw" THEN url
       ELSE Gave([logging |-> IF environment = "development"
                              THEN <<"query", "error", "warn">> ELSE <<"error">>,
                  errorFormat |-> IF environment = "development"
                                  THEN "pretty" ELSE "minimal"])

\* Mutant: the files getter validates the database URL instead of its own variable.
getFilesConfigByDbUrl(e, environment) ==
    LET directory == validateEnv(e, "MEDIA_DB_URL",
                   "Media files directory is not configured. Please set MEDIA_FILES_DIR environment variable.")
    IN IF directory.out = "threw" THEN directory
       ELSE Gave([directory |-> directory.value,
                  allowedTypes |-> <<"jpg", "jpeg", "png", "gif", "mp4", "mp3", "pdf">>,
                  maxSizeInMB |-> IF environment = "production" THEN 100 ELSE 500])

getFilesConfig(e, environment) ==
    LET directory == validateEnv(e, "MEDIA_FILES_DIR",
                   "Media files directory is not configured. Please set MEDIA_FILES_DIR environment variable.")
    IN IF directory.out = "threw" THEN directory
       ELSE Gave([directory |-> directory.value,
                  allowedTypes |-> <<"jpg", "jpeg", "png", "gif", "mp4", "mp3", "pdf">>,
                  maxSizeInMB |-> IF environment = "production" THEN 100 ELSE 500])

\* parseInt(s, 10) on the strings a PORT is given as: NaN when no digit leads.
PortNumbers == ("3000" :> 3000) @@ ("8080" :> 8080)
parseInt(s) ==
    IF s \in DOMAIN PortNumbers THEN [t |-> "int", v |-> PortNumbers[s]]
    ELSE [t |-> "nan", v |-> 0]

getAppConfig(e, environment) ==
    Gave([port |-> parseInt(IF Falsy(e["PORT"]) THEN "3000" ELSE e["PORT"].value),
          environment |-> environment])

\* The object literal is built field by field: the first getter that throws
\* ends getConfig.
getConfig(e) ==
    LET environment == IF Falsy(e["NODE_ENV"]) THEN "development" ELSE e["NODE_ENV"].value
        database == getDatabaseConfig(e, environment)
        files == getFilesConfig(e, environment)
        app == getAppConfig(e, environment)
    IN IF database.out = "threw" THEN database
       ELSE IF files.out = "threw" THEN files
       ELSE Gave([database |-> database.value, files |-> files.value, app |-> app.value])

NodeEnvs == {"development", "production", "test"}
NoCfg == [op |-> "none", arg |-> "", out |-> "none", value |-> [none |-> TRUE],
          message |-> ""]
NoBoot == [fatal |-> FALSE, queries |-> 0, refused |-> 0]

(***************************************************************************)
(* Two callers whose create calls run at the same time: a call is at its   *)
(* findUnique ("idle": not started), at its create, or "done".             *)
(***************************************************************************)
Callers == {"c1", "c2"}
IdleCall == [pc |-> "idle", op |-> "none", key |-> <<>>, fresh |-> FALSE,
             env |-> Envelope(TRUE, FALSE, <<>>, <<>>)]
NoCalls == [c \in Callers |-> IdleCall]

(***************************************************************************)
(* Inputs of the calls.                                                    *)
(***************************************************************************)
IdInputs == {Undefined} \cup {Num(i) : i \in 0..MaxIdArg}
ParentInputs == {Undefined, Text(NoName)} \cup {Text(n) : n \in BoardNames}
PageInputs == {Undefined, Num(-3), Num(0), Frac(1)} \cup {Num(i) : i \in 1..MaxPage}
PageSizeInputs == {Undefined, Num(0), Frac(1)} \cup {Num(i) : i \in 1..MaxPageSize}
Wheres == {WhereAll, WhereContains(<<"a">>)}

Created(d) == (d.seq["tag"] - 1) + (d.seq["website"] - 1) + (d.seq["mediaFile"] - 1)
              + (d.seq["board"] - 1) + (d.seq["pin"] - 1)
Bounded(d) == Created(d) <= MaxRecords

Init ==
    /\ db = EmptyDb
    /\ last = NoCall
    /\ pgPc = "idle"
    /\ pgArgs = NoArgs
    /\ pgData = <<>>
    /\ pgSeen = NoSeen
    /\ pgIo = NoIo
    /\ pgRes = [out |-> "none", env |-> PgNone]
    /\ scan = NoScan
    /\ procEnv = ConfiguredEnv
    /\ cfg = NoCfg
    /\ boot = NoBoot
    /\ calls = NoCalls

pgVars == <<pgPc, pgArgs, pgData, pgSeen, pgIo, pgRes, scan>>

(***************************************************************************)
(* A CRUD call, from entry to return, with no other call in between.       *)
(***************************************************************************)
Crud(op, args, r) ==
    /\ last = NoCall
    /\ Bounded(r.db)
    /\ db' = r.db
    /\ last' = [op |-> op, args |-> args, out |-> r.out, env |-> r.env]
    /\ UNCHANGED <<pgVars, cfgVars, calls>>

DoCreateWebSite ==
    \E url \in Urls, fault \in 0..2 :
        Crud("createWebSite", <<url>>, createWebSite(db, url, fault))
DoGetWebSiteByID ==
    \E id \in IdInputs, fault \in 0..1 :
        Crud("getWebSiteByID", <<id>>, getWebSiteByID(db, id, fault))
DoGetWebSiteByURL ==
    \E url \in Urls, fault \in 0..1 :
        Crud("getWebSiteByURL", <<url>>, getWebSiteByURL(db, url, fault))
DoDeleteWebsite ==
    \E id \in IdInputs, fault \in 0..2 :
        Crud("deleteWebsite", <<id>>, deleteWebsite(db, id, fault))
DoCreateWebsiteBoard ==
    \E websiteID \in IdInputs, name \in BoardNames, parent \in ParentInputs,
       fault \in 0..6 :
        Crud("createWebsiteBoard", <<websiteID, name, parent>>,
             createWebsiteBoard(db, websiteID, name, parent, fault))
DoGetWebsiteBoard ==
    \E websiteID \in IdInputs, name \in BoardNames, fault \in 0..1 :
        Crud("getWebsiteBoard", <<websiteID, name>>,
             getWebsiteBoard(db, websiteID, name, fault))
DoUpdateWebsiteBoard ==
    \E websiteID \in IdInputs, name \in BoardNames, updateInfo \in BoardNames \cup {NoName},
       fault \in 0..3 :
        Crud("updateWebsiteBoard", <<websiteID, name, updateInfo>>,
             updateWebsiteBoard(db, websiteID, name, updateInfo, fault))
DoDeleteWebsiteBoard ==
    \E websiteID \in IdInputs, name \in BoardNames, fault \in 0..3 :
        Crud("deleteWebsiteBoard", <<websiteID, name>>,
             deleteWebsiteBoard(db, websiteID, name, fault))
DoCreateBoardPin ==
    \E boardID \in IdInputs, mediaFileID \in IdInputs, fault \in 0..3 :
        Crud("createBoardPin", <<boardID, mediaFileID>>,
             createBoardPin(db, boardID, mediaFileID, fault))
DoCreateMediaFile ==
    \E hash \in Hashes, fault \in 0..2 :
        Crud("createMediaFile", <<hash>>, createMediaFile(db, hash, fault))
DoGetMediaFileByID ==
    \E id \in IdInputs, fault \in 0..1 :
        Crud("getMediaFileByID", <<id>>, getMediaFileByID(db, id, fault))
DoDeleteMediaFile ==
    \E id \in IdInputs, fault \in 0..2 :
        Crud("deleteMediaFile", <<id>>, deleteMediaFile(db, id, fault))
DoCreateTag ==
    \E name \in Names, fault \in 0..2 :
        Crud("createTag", <<name>>, createTag(db, name, fault))
DoGetTagByID ==
    \E id \in IdInputs, fault \in 0..1 :
        Crud("getTagByID", <<id>>, getTagByID(db, id, fault))
DoGetTagByName ==
    \E name \in Names, fault \in 0..1 :
        Crud("getTagByName", <<name>>, getTagByName(db, name, fault))
DoUpdateTag ==
    \E id \in IdInputs, name \in Names, fault \in 0..2 :
        Crud("updateTag", <<id, name>>, updateTag(db, id, name, fault))
DoDeleteTag ==
    \E id \in IdInputs, fault \in 0..2 :
        Crud("deleteTag", <<id>>, deleteTag(db, id, fault))

\* The caller has the outcome; the controller takes the next call.
CrudReturn ==
    /\ last # NoCall
    /\ last' = NoCall
    /\ UNCHANGED <<db, pgVars, cfgVars, calls>>

Next ==
    \/ CrudReturn
    \/ DoCreateWebSite \/ DoGetWebSiteByID \/ DoGetWebSiteByURL \/ DoDeleteWebsite
    \/ DoCreateWebsiteBoard \/ DoGetWebsiteBoard \/ DoUpdateWebsiteBoard
    \/ DoDeleteWebsiteBoard \/ DoCreateBoardPin
    \/ DoCreateMediaFile \/ DoGetMediaFileByID \/ DoDeleteMediaFile
    \/ DoCreateTag \/ DoGetTagByID \/ DoGetTagByName \/ DoUpdateTag \/ DoDeleteTag

Spec == Init /\ [][Next]_vars

(***************************************************************************)
(* A getPaginated call on the Tag model, step by step, with writers of the *)
(* Tag table running between its steps. The queries go through `model`,   *)
(* the client's own delegate, not through the transaction client the       *)
(* callback is handed, so each of them sees the store as it is when it     *)
(* runs.                                                                   *)
(***************************************************************************)
PgEnd(res) ==
    /\ pgRes' = res
    /\ pgPc' = "done"

\* Entry: defaults, validation (outside the try block), then $transaction.
PgCall ==
    /\ pgPc = "idle"
    /\ \E where \in Wheres, page \in PageInputs, pageSize \in PageSizeInputs,
          fault \in BOOLEAN :
         LET args == [where |-> where, page |-> page, pageSize |-> pageSize]
             v == PgParams(args)
         IN /\ pgArgs' = args
            /\ pgData' = <<>>
            /\ IF ~v.ok
               THEN /\ pgIo' = NoIo
                    /\ pgSeen' = NoSeen
                    /\ PgEnd([out |-> "raised", env |-> PgNone])
               ELSE /\ pgIo' = [NoIo EXCEPT !.txn = 1]
                    /\ pgSeen' = [NoSeen EXCEPT !.fault = fault]
                    /\ IF fault
                       THEN PgEnd([out |-> "returned",
                                   env |-> PgFailure(StorageFault, v.pageNum, v.numPerPage)])
                       ELSE /\ pgRes' = [out |-> "none", env |-> PgNone]
                            /\ pgPc' = "find"
    /\ UNCHANGED <<db, last, scan, cfgVars, calls>>

PgFindMany ==
    /\ pgPc = "find"
    /\ \E fault \in BOOLEAN :
         LET v == PgParams(pgArgs)
             skip == PgSkip(v.pageNum, v.numPerPage)
             take == PgTake(v.pageNum, v.numPerPage)
         IN /\ pgIo' = [pgIo EXCEPT !.findMany = @ + 1]
            /\ IF fault \/ skip < 0
               THEN /\ pgSeen' = [pgSeen EXCEPT !.fault = TRUE]
                    /\ pgData' = pgData
                    /\ PgEnd([out |-> "returned",
                              env |-> PgFailure(StorageFault, v.pageNum, v.numPerPage)])
               ELSE /\ pgData' = tagFindMany(db, pgArgs.where, skip, take)
                    /\ pgSeen' = [total |-> tagCount(db, pgArgs.where),
                                  dirty |-> FALSE, fault |-> FALSE]
                    /\ pgRes' = pgRes
                    /\ pgPc' = "count"
    /\ UNCHANGED <<db, last, pgArgs, scan, cfgVars, calls>>

\* count, the commit of the transaction, and the return of the envelope.
PgCount ==
    /\ pgPc = "count"
    /\ \E fault \in BOOLEAN :
         LET v == PgParams(pgArgs)
             env == PgSuccess(pgData, PgTotal(pgData, tagCount(db, pgArgs.where)),
                              v.pageNum, v.numPerPage)
         IN /\ pgIo' = [pgIo EXCEPT !.count = @ + 1]
            /\ IF fault
               THEN /\ pgSeen' = [pgSeen EXCEPT !.fault = TRUE]
                    /\ scan' = scan
                    /\ PgEnd([out |-> "returned",
                              env |-> PgFailure(StorageFault, v.pageNum, v.numPerPage)])
               ELSE /\ pgSeen' = pgSeen
                    /\ scan' = ScanAfter(scan, pgArgs, env, pgSeen.dirty)
                    /\ PgEnd([out |-> "returned", env |-> env])
    /\ UNCHANGED <<db, last, pgArgs, pgData, cfgVars, calls>>

\* The caller has the outcome; the controller takes the next call.
PgReturn ==
    /\ pgPc = "done"
    /\ pgPc' = "idle"
    /\ pgArgs' = NoArgs
    /\ pgData' = <<>>
    /\ pgSeen' = NoSeen
    /\ pgIo' = NoIo
    /\ pgRes' = [out |-> "none", env |-> PgNone]
    /\ UNCHANGED <<db, last, scan, cfgVars, calls>>

\* A concurrent writer: a whole create or delete of a tag.
PgWrite(r) ==
    /\ r.db # db
    /\ r.db.seq["tag"] - 1 <= MaxTags
    /\ db' = r.db
    /\ pgSeen' = [pgSeen EXCEPT !.dirty = @ \/ pgPc = "count"]
    /\ scan' = NoScan
    /\ UNCHANGED <<last, pgPc, pgArgs, pgData, pgIo, pgRes, cfgVars, calls>>

PgCreateTag == \E name \in Names : PgWrite(createTag(db, name, 0))
PgDeleteTag == \E id \in IdInputs : PgWrite(deleteTag(db, id, 0))

NextPage ==
    \/ PgCall \/ PgFindMany \/ PgCount \/ PgReturn
    \/ PgCreateTag \/ PgDeleteTag

SpecPage == Init /\ [][NextPage]_vars

(***************************************************************************)
(* Properties of the pagination engine (under SpecPage).                   *)
(***************************************************************************)
\* What the caller asked for, read off the arguments alone.
IsPositiveInt(x) == x.t = "int" /\ x.v >= 1
AskedPage == OrDefault(pgArgs.page, DEFAULT_PAGE_NUMBER)
AskedPageSize == OrDefault(pgArgs.pageSize, DEFAULT_PAGE_SIZE)
AskedValid == IsPositiveInt(AskedPage) /\ IsPositiveInt(AskedPageSize)
PgSucceeded == pgPc = "done" /\ pgRes.out = "returned" /\ pgRes.env.success
CeilDiv(a, b) == (a + b - 1) \div b

\* C1: a getPaginated call with page >= 1 and pageSize >= 1 that succeeds
\* returns at most pageSize rows, whatever the store and the filter.
C1_DataWithinPageSize ==
    (PgSucceeded /\ AskedValid) => Len(pgRes.env.data) <= AskedPageSize.v

\* A full page cut out of more matching rows than fit on it.
C1_Witness ==
    /\ PgSucceeded
    /\ AskedPageSize.v = 2
    /\ Len(pgRes.env.data) = 2
    /\ pgRes.env.total = 3

\* C2: on an unchanged store, the row counts of pages 1..ceil(total/pageSize)
\* add up to the total, and every one of those calls reports that total.
C2_PagesSumToTotal ==
    (scan.on /\ \E t \in scan.totals : scan.upto = CeilDiv(t, scan.pageSize))
        => scan.totals = {scan.sum}

\* Two pages of size 2 over 3 rows, the last one partly filled.
C2_Witness ==
    /\ scan.on
    /\ scan.pageSize = 2
    /\ scan.upto = 2
    /\ scan.sum = 3
    /\ scan.totals = {3}

\* C3: with no write during the call, total is the number of all rows matching
\* the filter, whatever page and pageSize are; a page beyond the last one comes
\* back with success, data present and empty; and page 1 with a pageSize no
\* smaller than the number of matching rows holds all of them.
C3_TotalIndependentOfPage ==
    (PgSucceeded /\ ~pgSeen.dirty) =>
        /\ pgRes.env.total = pgSeen.total
        /\ ((AskedPage.v - 1) * AskedPageSize.v >= pgSeen.total
               => pgRes.env.hasData /\ pgRes.env.data = <<>>)
        /\ (AskedPage.v = 1 /\ pgSeen.total <= AskedPageSize.v
               => Len(pgRes.env.data) = pgSeen.total)

\* Page 3 of size 1 over 2 matching rows: empty data, total 2.
C3_Witness ==
    /\ PgSucceeded
    /\ ~pgSeen.dirty
    /\ AskedPage.v = 3
    /\ AskedPageSize.v = 1
    /\ pgSeen.total = 2
    /\ pgRes.env.hasData
    /\ pgRes.env.data = <<>>
    /\ pgRes.env.total = 2

\* C4: a call whose page or pageSize is not a positive integer issues no
\* findMany, no count and opens no transaction, at any point of the call.
C4_NoStorageCallOnInvalid ==
    (pgPc # "idle" /\ ~AskedValid) => (pgIo = NoIo /\ pgPc = "done")

\* page = 0 was passed and the call is over.
C4_Witness ==
    /\ pgPc = "done"
    /\ pgArgs.page = Num(0)
    /\ pgArgs.pageSize = Num(2)
    /\ pgIo = NoIo

\* C5: a call whose page or pageSize fails validation ends by returning an
\* envelope with success false; the failure is not raised to the caller.
C5_InvalidReturnsEnvelope ==
    (pgPc = "done" /\ ~AskedValid) =>
        (pgRes.out = "returned" /\ ~pgRes.env.success)

\* C6: the total of a returned envelope is the number of rows matching the
\* filter in the store state its data rows were fetched from, under any
\* interleaving with writers.
C6_DataAndTotalFromOneSnapshot ==
    PgSucceeded => pgRes.env.total = pgSeen.total

CreateOps == {"createTag", "createWebSite", "createMediaFile", "createWebsiteBoard"}
LookupOps ==
    {"getWebSiteByID", "getWebSiteByURL", "getWebsiteBoard", "getMediaFileByID",
     "getTagByID", "getTagByName", "updateTag", "updateWebsiteBoard",
     "deleteTag", "deleteMediaFile", "deleteWebsite", "deleteWebsiteBoard"}

\* The storage collaborator threw under the call.
Faulted(call) == call.env.message = <<"Database error", "P2024">>

\* The records holding the unique key a create call asks for.
SameKey(d, call) ==
    CASE call.op = "createTag" -> {t \in d.tags : t.name = call.args[1]}
      [] call.op = "createWebSite" -> {w \in d.websites : w.url = call.args[1]}
      [] call.op = "createMediaFile" -> {m \in d.mediaFiles : m.hash = call.args[1]}
      [] call.op = "createWebsiteBoard" ->
            {b \in d.boards : /\ IsPositiveInt(call.args[1])
                              /\ b.websiteId = call.args[1].v
                              /\ b.name = call.args[2]}
      [] OTHER -> {}

\* C8: a create called while a record with the same unique key exists returns
\* success true, created false and that record as data, and leaves the store
\* as it is (the storage collaborator not failing under the call).
C8_CreateFindsPreExisting ==
    [][(last'.op \in CreateOps /\ SameKey(db, last') # {} /\ ~Faulted(last'))
         => /\ last'.out = "returned"
            /\ last'.env.success
            /\ ~last'.env.flag
            /\ Len(last'.env.data) = 1
            /\ last'.env.data[1] \in SameKey(db, last')
            /\ db' = db]_vars

\* createWebsiteBoard found the board of that name on the website.
C8_Witness ==
    /\ last.op = "createWebsiteBoard"
    /\ last.env.success
    /\ ~last.env.flag
    /\ last.env.data # <<>>
    /\ last.env.data[1] \in db.boards

\* Whether a lookup call names its target by a valid id (names are always valid).
ValidTarget(call) ==
    IF call.op \in {"getWebSiteByURL", "getTagByName"} THEN TRUE
    ELSE IF call.op = "getTagByID" THEN IsPositiveInt(OrDefault(call.args[1], -1))
    ELSE IsPositiveInt(call.args[1])

\* The records a get, update or delete call targets.
Targets(d, call) ==
    CASE call.op \in {"getWebSiteByID", "deleteWebsite"} ->
            {w \in d.websites : w.id = call.args[1].v}
      [] call.op = "getWebSiteByURL" -> {w \in d.websites : w.url = call.args[1]}
      [] call.op \in {"getMediaFileByID", "deleteMediaFile"} ->
            {m \in d.mediaFiles : m.id = call.args[1].v}
      [] call.op \in {"getTagByID", "updateTag", "deleteTag"} ->
            {t \in d.tags : t.id = call.args[1].v}
      [] call.op = "getTagByName" -> {t \in d.tags : t.name = call.args[1]}
      [] call.op \in {"getWebsiteBoard", "updateWebsiteBoard", "deleteWebsiteBoard"} ->
            {b \in d.boards : b.websiteId = call.args[1].v /\ b.name = call.args[2]}
      [] OTHER -> {}

\* C9: a get, update or delete that targets a valid id or name for which no
\* record exists returns success true, its flag false and no data, and leaves
\* the store as it is (the storage collaborator not failing under the call).
C9_MissingTargetNotFound ==
    [][(/\ last'.op \in LookupOps
        /\ ValidTarget(last')
        /\ Targets(db, last') = {}
        /\ ~Faulted(last'))
         => /\ last'.out = "returned"
            /\ last'.env.success
            /\ ~last'.env.flag
            /\ last'.env.data = <<>>
            /\ db' = db]_vars

\* deleteWebsiteBoard on an existing website that has no board of that name.
C9_Witness ==
    /\ last.op = "deleteWebsiteBoard"
    /\ last.env.success
    /\ ~last.env.flag
    /\ last.env.data = <<>>
    /\ last.env.message = <<"Website/Board pair", "not found.">>

\* Whether the id a call names its website, board, media file or tag by is
\* not a positive integer.
IdArgs(call) ==
    CASE call.op \in {"getWebSiteByID", "deleteWebsite", "createWebsiteBoard",
                      "getWebsiteBoard", "updateWebsiteBoard", "deleteWebsiteBoard",
                      "createBoardPin", "getMediaFileByID", "deleteMediaFile",
                      "updateTag", "deleteTag"} ->
            {call.args[1]}
      [] call.op = "getTagByID" -> {OrDefault(call.args[1], -1)}
      [] OTHER -> {}
InvalidId(call) == \E x \in IdArgs(call) : ~IsPositiveInt(x)

\* C10: every single-entity call ends by returning an envelope, never by
\* raising; with an invalid id or a storage fault, the envelope has success
\* false.
C10_FaultsEndInEnvelope ==
    last.op # "none" =>
        /\ last.out = "returned"
        /\ ((InvalidId(last) \/ Faulted(last)) => ~last.env.success)

(***************************************************************************)
(* A process from its start: calls of the media-config functions and       *)
(* storage queries of the DBController singleton. The controller builds    *)
(* its PrismaClient without reading media-config; the client resolves      *)
(* env("MEDIA_DB_URL") of the datasource when it first connects.           *)
(***************************************************************************)
InitBoot ==
    /\ db = EmptyDb
    /\ last = NoCall
    /\ pgPc = "idle"
    /\ pgArgs = NoArgs
    /\ pgData = <<>>
    /\ pgSeen = NoSeen
    /\ pgIo = NoIo
    /\ pgRes = [out |-> "none", env |-> PgNone]
    /\ scan = NoScan
    /\ procEnv \in Environments
    /\ cfg = NoCfg
    /\ boot = NoBoot
    /\ calls = NoCalls

\* A call of a media-config function; getConfig throwing ends the process.
CfgCall(op, arg, r) ==
    /\ ~boot.fatal
    /\ cfg' = [op |-> op, arg |-> arg, out |-> r.out, value |-> r.value,
               message |-> r.message]
    /\ boot' = [boot EXCEPT !.fatal = (op = "getConfig" /\ r.out = "threw")]
    /\ UNCHANGED <<db, last, pgVars, procEnv, calls>>

DoValidateEnvironment ==
    CfgCall("validateEnvironment", "", Gave(validateEnvironment(procEnv)))
DoGetDatabaseConfig ==
    \E environment \in NodeEnvs :
        CfgCall("getDatabaseConfig", environment, getDatabaseConfig(procEnv, environment))
DoGetFilesConfig ==
    \E environment \in NodeEnvs :
        CfgCall("getFilesConfig", environment, getFilesConfig(procEnv, environment))
DoGetConfig ==
    CfgCall("getConfig", "", getConfig(procEnv))

\* A DBController method reaches its first storage call: the client connects
\* with the datasource url, or fails to initialise when the url is missing.
BootQuery ==
    /\ ~boot.fatal
    /\ IF Falsy(procEnv["MEDIA_DB_URL"])
       THEN /\ boot.refused < MaxQueries
            /\ boot' = [boot EXCEPT !.refused = @ + 1]
       ELSE /\ boot.queries < MaxQueries
            /\ boot' = [boot EXCEPT !.queries = @ + 1]
    /\ UNCHANGED <<db, last, pgVars, procEnv, cfg, calls>>

NextBoot ==
    \/ DoValidateEnvironment \/ DoGetDatabaseConfig \/ DoGetFilesConfig
    \/ DoGetConfig \/ BootQuery

SpecBoot == InitBoot /\ [][NextBoot]_vars

(***************************************************************************)
(* Properties of media-config (under SpecBoot).                            *)
(***************************************************************************)
\* The required variables that are unset or empty.
Missing ==
    {n \in {"MEDIA_DB_URL", "MEDIA_FILES_DIR"} : ~(procEnv[n].set /\ procEnv[n].value # "")}
Range(seq) == {seq[i] : i \in 1..Len(seq)}

\* C16: validateEnvironment gives valid = true and no errors exactly when
\* MEDIA_DB_URL and MEDIA_FILES_DIR are both set and non-empty; otherwise
\* valid = false with exactly one "Missing required environment variable"
\* entry per missing variable; PORT and NODE_ENV have no influence.
C16_ValidIffRequiredSet ==
    cfg.op = "validateEnvironment" =>
        /\ cfg.out = "returned"
        /\ cfg.value.valid <=> (Missing = {})
        /\ cfg.value.valid => cfg.value.errors = <<>>
        /\ Len(cfg.value.errors) = Cardinality(Missing)
        /\ Range(cfg.value.errors) =
              {<<"Missing required environment variable:", n>> : n \in Missing}
        /\ cfg.value = validateEnvironment([procEnv EXCEPT !["PORT"] = Unset,
                                                           !["NODE_ENV"] = Unset])

\* MEDIA_FILES_DIR is the empty string, PORT is set: one error, for that variable.
C16_Witness ==
    /\ cfg.op = "validateEnvironment"
    /\ procEnv["MEDIA_FILES_DIR"] = Str("")
    /\ procEnv["MEDIA_DB_URL"] = Str("file:./test.db")
    /\ procEnv["PORT"] = Str("8080")
    /\ ~cfg.value.valid
    /\ cfg.value.errors = <<<<"Missing required environment variable:", "MEDIA_FILES_DIR">>>>

\* C17: getDatabaseConfig throws "Database URL is not configured..." exactly
\* when MEDIA_DB_URL is unset or empty, and otherwise returns logging and
\* errorFormat; getFilesConfig throws "Media files directory is not
\* configured..." exactly when MEDIA_FILES_DIR is unset or empty, and otherwise
\* returns MEDIA_FILES_DIR as directory; neither reads the other's variable.
C17_GettersThrowIffOwnVarMissing ==
    /\ cfg.op = "getDatabaseConfig" =>
          /\ (cfg.out = "threw") <=> ("MEDIA_DB_URL" \in Missing)
          /\ cfg.out = "threw" => cfg.message =
                "Database URL is not configured. Please set MEDIA_DB_URL environment variable."
          /\ cfg.out # "threw" =>
                /\ cfg.out = "returned"
                /\ {"logging", "errorFormat"} \subseteq DOMAIN cfg.value
    /\ cfg.op = "getFilesConfig" =>
          /\ (cfg.out = "threw") <=> ("MEDIA_FILES_DIR" \in Missing)
          /\ cfg.out = "threw" => cfg.message =
                "Media files directory is not configured. Please set MEDIA_FILES_DIR environment variable."
          /\ cfg.out # "threw" =>
                /\ cfg.out = "returned"
                /\ cfg.value.directory = procEnv["MEDIA_FILES_DIR"].value

\* getFilesConfig returns the directory while MEDIA_DB_URL is unset.
C17_Witness ==
    /\ cfg.op = "getFilesConfig"
    /\ cfg.out = "returned"
    /\ ~procEnv["MEDIA_DB_URL"].set
    /\ cfg.value.directory = "/tmp/test-media"

\* C18: no storage query runs while MEDIA_DB_URL or MEDIA_FILES_DIR is missing.
C18_NoQueryWhileSettingMissing ==
    boot.queries > 0 => Missing = {}

(***************************************************************************)
(* Uniqueness of the content keys (under Spec).                            *)
(***************************************************************************)
\* No two media files share a hash, no two tags a name, no two websites a url.
UniqueKeys(d) ==
    /\ \A m, n \in d.mediaFiles : m.hash = n.hash => m = n
    /\ \A t, u \in d.tags : t.name = u.name => t = u
    /\ \A w, x \in d.websites : w.url = x.url => w = x

\* An updateTag call that renames an existing tag to the name of another tag.
RenamesOntoOther(d, call) ==
    /\ call.op = "updateTag"
    /\ IsPositiveInt(call.args[1])
    /\ \E t \in d.tags : t.id = call.args[1].v
    /\ \E u \in d.tags : u.id # call.args[1].v /\ u.name = call.args[2]

\* C14: every step of any operation leaves hashes, tag names and urls unique;
\* an updateTag that renames a tag to a name already in use returns success
\* false and leaves the store as it is.
C14_UniqueKeysKept ==
    [][/\ UniqueKeys(db')
       /\ RenamesOntoOther(db, last') =>
             /\ last'.out = "returned"
             /\ ~last'.env.success
             /\ db' = db]_vars

\* updateTag was refused by the unique index on Tag.name.
C14_Witness ==
    /\ last.op = "updateTag"
    /\ last.out = "returned"
    /\ ~last.env.success
    /\ last.env.message = <<"Unique constraint violation">>
    /\ Cardinality(db.tags) = 2

(***************************************************************************)
(* Websites with their boards and pins: the handlers that write them, run  *)
(* one after another on a store large enough to hold a website, two boards *)
(* (one possibly under the other), a media file and a pin.                 *)
(***************************************************************************)
MaxWebsites == 1      \* websites ever created
MaxBoards == 2        \* boards ever created
MaxPins == 1          \* pins ever created
MaxMediaFiles == 1    \* media files ever created

Capped(d) ==
    /\ d.seq["website"] - 1 <= MaxWebsites
    /\ d.seq["board"] - 1 <= MaxBoards
    /\ d.seq["pin"] - 1 <= MaxPins
    /\ d.seq["mediaFile"] - 1 <= MaxMediaFiles

\* The ids and id arrays a caller passes, valid ones and others.
BdIds == {Num(i) : i \in 0..MaxIdArg}
BdOptionalIds == {Undefined, Num(-1), Num(0), Num(1)}
BdTagIds == {<<>>, <<Num(0)>>, <<Num(1)>>, <<Num(1), Num(2)>>}

BdCall(op, args, r) ==
    /\ last = NoCall
    /\ Capped(r.db)
    /\ db' = r.db
    /\ last' = [op |-> op, args |-> args, out |-> r.out, env |-> r.env]
    /\ UNCHANGED <<pgVars, cfgVars, calls>>

BdCreateWebSite ==
    \E url \in Urls :
        BdCall("createWebSite", <<url>>, createWebSite(db, url, 0))
BdDeleteWebsite ==
    \E id \in BdIds, fault \in 0..1 :
        BdCall("deleteWebsite", <<id>>, deleteWebsite(db, id, fault))
BdCreateWebsiteBoard ==
    \E websiteID \in BdIds, name \in BoardNames, parent \in ParentInputs :
        BdCall("createWebsiteBoard", <<websiteID, name, parent>>,
               createWebsiteBoard(db, websiteID, name, parent, 0))
BdUpdateWebsiteBoard ==
    \E websiteID \in BdIds, name \in BoardNames, updateInfo \in BoardNames :
        BdCall("updateWebsiteBoard", <<websiteID, name, updateInfo>>,
               updateWebsiteBoard(db, websiteID, name, updateInfo, 0))
BdDeleteWebsiteBoard ==
    \E websiteID \in BdIds, name \in BoardNames, fault \in 0..1 :
        BdCall("deleteWebsiteBoard", <<websiteID, name>>,
               deleteWebsiteBoard(db, websiteID, name, fault))
BdCreateMediaFile ==
    \E hash \in Hashes :
        BdCall("createMediaFile", <<hash>>, createMediaFile(db, hash, 0))
BdDeleteMediaFile ==
    \E id \in BdIds, fault \in 0..1 :
        BdCall("deleteMediaFile", <<id>>, deleteMediaFile(db, id, fault))
BdCreateBoardPin ==
    \E boardID \in BdIds, mediaFileID \in BdOptionalIds, fault \in 0..1 :
        BdCall("createBoardPin", <<boardID, mediaFileID>>,
               createBoardPin(db, boardID, mediaFileID, fault))
BdUpdateMediaFileTags ==
    \E mediaFileID \in BdIds, newTagIDs \in BdTagIds, fault \in 0..1 :
        BdCall("updateMediaFileTags", <<mediaFileID, newTagIDs>>,
               updateMediaFileTags(db, mediaFileID, newTagIDs, fault))
BdMigrateMediaFileTag ==
    \E fromTagID \in BdIds, toTagID \in BdIds, fault \in 0..1 :
        BdCall("migrateMediaFileTag", <<fromTagID, toTagID>>,
               migrateMediaFileTag(db, fromTagID, toTagID, fault))
\* The queries: page and pageSize are left out, or given as page 1 of size 1.
BdPaging == {<<Undefined, Undefined>>, <<Num(1), Num(1)>>}
BdSearchTags ==
    \E substring \in {<<>>, <<"a">>}, pg \in BdPaging, fault \in 0..1 :
        BdCall("searchTags", <<substring, pg[1], pg[2]>>,
               searchTags(db, substring, pg[1], pg[2], fault))
BdGetMediaFilesWithTags ==
    \E tagIDs \in BdTagIds, pg \in BdPaging, fault \in 0..1 :
        BdCall("getMediaFilesWithTags", <<tagIDs, pg[1], pg[2]>>,
               getMediaFilesWithTags(db, tagIDs, pg[1], pg[2], fault))
BdGetBoardPins ==
    \E boardID \in BdIds, pg \in BdPaging, fault \in 0..1 :
        BdCall("getBoardPins", <<boardID, pg[1], pg[2]>>,
               getBoardPins(db, boardID, pg[1], pg[2], fault))
BdGetAllTags ==
    \E pg \in BdPaging, fault \in 0..1 :
        BdCall("getAllTags", <<NoName, pg[1], pg[2]>>,
               getAllTags(db, pg[1], pg[2], fault))
BdGetUntaggedMediaFiles ==
    \E pg \in BdPaging, fault \in 0..1 :
        BdCall("getUntaggedMediaFiles", <<NoName, pg[1], pg[2]>>,
               getUntaggedMediaFiles(db, pg[1], pg[2], fault))
BdGetAllWebsites ==
    \E fault \in 0..1 :
        BdCall("getAllWebsites", <<NoName, Undefined, Undefined>>,
               getAllWebsites(db, fault))

NextBoards ==
    \/ CrudReturn
    \/ BdCreateWebSite \/ BdDeleteWebsite
    \/ BdCreateWebsiteBoard \/ BdUpdateWebsiteBoard \/ BdDeleteWebsiteBoard
    \/ BdCreateMediaFile \/ BdDeleteMediaFile \/ BdCreateBoardPin
    \/ BdUpdateMediaFileTags \/ BdMigrateMediaFileTag
    \/ BdSearchTags \/ BdGetMediaFilesWithTags \/ BdGetBoardPins
    \/ BdGetAllTags \/ BdGetUntaggedMediaFiles \/ BdGetAllWebsites

SpecBoards == Init /\ [][NextBoards]_vars

(***************************************************************************)
(* Properties of websites, boards and pins (under SpecBoards).             *)
(***************************************************************************)
\* The boards of a website, and the pins on them.
BoardsOf(d, websiteId) == {b \in d.boards : b.websiteId = websiteId}
PinsOn(d, boards) == {p \in d.pins : \E b \in boards : p.boardId = b.id}

\* C11: deleteWebsite(id) on an existing website that has boards returns
\* deleted true, and afterwards no board of that website and no pin of those
\* boards is left (the storage collaborator not failing under the call).
C11_DeleteWebsiteCascades ==
    [][(/\ last'.op = "deleteWebsite"
        /\ ~Faulted(last')
        /\ IsPositiveInt(last'.args[1])
        /\ \E w \in db.websites : w.id = last'.args[1].v
        /\ BoardsOf(db, last'.args[1].v) # {})
         => /\ last'.out = "returned"
            /\ last'.env.success
            /\ last'.env.flag
            /\ BoardsOf(db', last'.args[1].v) = {}
            /\ PinsOn(db', BoardsOf(db, last'.args[1].v)) = {}]_vars

\* C12: deleteWebsite and deleteWebsiteBoard, whatever their outcome, leave
\* the media files, the tags and the media-file/tag associations as they were.
C12_DeletesKeepMediaAndTags ==
    [][last'.op \in {"deleteWebsite", "deleteWebsiteBoard"}
         => /\ db'.mediaFiles = db.mediaFiles
            /\ db'.tags = db.tags
            /\ db'.links = db.links]_vars

\* A board was deleted; its tag, a media file and their association remain.
C12_Witness ==
    /\ last.op = "deleteWebsiteBoard"
    /\ last.env.success
    /\ last.env.flag
    /\ \E t \in db.tags : t.name = last.env.data[1].name /\ FilesOf(db, t.id) # {}
    /\ db.mediaFiles # {}

\* C13: no two boards of one website have the same name, whatever their parents.
C13_BoardNamesUniquePerWebsite ==
    \A b, c \in db.boards : (b.websiteId = c.websiteId /\ b.name = c.name) => b = c

\* The ids, search substrings and tag-id arrays a call supplies.
SuppliedInvalid(call) ==
    CASE call.op \in {"deleteWebsite", "createWebsiteBoard", "updateWebsiteBoard",
                      "deleteWebsiteBoard", "getBoardPins"} ->
            ~IsPositiveInt(call.args[1])
      [] call.op = "createBoardPin" ->
            \/ ~IsPositiveInt(call.args[1])
            \/ (call.args[2] # Undefined /\ ~IsPositiveInt(call.args[2]))
      [] call.op = "updateMediaFileTags" ->
            \/ ~IsPositiveInt(call.args[1])
            \/ call.args[2] = <<>>
            \/ \E i \in 1..Len(call.args[2]) : ~IsPositiveInt(call.args[2][i])
      [] call.op = "migrateMediaFileTag" ->
            ~IsPositiveInt(call.args[1]) \/ ~IsPositiveInt(call.args[2])
      [] call.op = "searchTags" -> call.args[1] = <<>>
      [] call.op = "getMediaFilesWithTags" ->
            \/ call.args[1] = <<>>
            \/ \E i \in 1..Len(call.args[1]) : ~IsPositiveInt(call.args[1][i])
      [] OTHER -> FALSE

\* The call ended in the validation failure itself: raised, or returned in an
\* error envelope, with no storage call having decided the outcome.
FailedValidation(call) ==
    IF call.out = "raised" THEN call.env.message = <<"raised", "zod">>
    ELSE /\ "message" \in DOMAIN call.env
         /\ ~call.env.success
         /\ call.env.message = <<"Unexpected error", "zod">>

\* C15: a call that supplies an id that is no positive integer, an empty
\* search substring or an empty or ill-formed tag-id array fails on that
\* validation, before any storage call, and leaves the store as it is.
C15_InvalidInputStopsBeforeStorage ==
    [][SuppliedInvalid(last') => (FailedValidation(last') /\ db' = db)]_vars

(***************************************************************************)
(* Properties of the public paginated queries (under SpecBoards). A query  *)
(* call keeps its first argument, page and pageSize in last.args.          *)
(***************************************************************************)
PublicQueries ==
    {"getAllTags", "searchTags", "getUntaggedMediaFiles", "getMediaFilesWithTags",
     "getBoardPins", "getAllWebsites"}

\* The model a query reads and the where clause it builds from its argument.
QueryModel(call) ==
    CASE call.op \in {"getAllTags", "searchTags"} -> "tag"
      [] call.op \in {"getUntaggedMediaFiles", "getMediaFilesWithTags"} -> "mediaFile"
      [] call.op = "getBoardPins" -> "pin"
      [] OTHER -> "website"
QueryWhere(call) ==
    CASE call.op = "searchTags" -> WhereContains(call.args[1])
      [] call.op = "getUntaggedMediaFiles" -> WhereUntagged
      [] call.op = "getMediaFilesWithTags" ->
            WhereHasTags([i \in 1..Len(call.args[1]) |-> call.args[1][i].v])
      [] call.op = "getBoardPins" -> WhereBoard(call.args[1].v)
      [] OTHER -> WhereAll

\* C19: a public paginated query called without page and pageSize, when it
\* succeeds, reports page 1 and pageSize 25, and its data are the first
\* (at most 25) matching rows.
C19_DefaultsToFirstPage ==
    (/\ last.op \in PublicQueries
     /\ last.args[2] = Undefined
     /\ last.args[3] = Undefined
     /\ last.out = "returned"
     /\ last.env.success)
        => /\ last.env.page = 1
           /\ last.env.pageSize = 25
           /\ LET rows == Ordered(db, QueryModel(last), QueryWhere(last))
              IN last.env.data = SubSeq(rows, 1, IF Len(rows) < 25 THEN Len(rows) ELSE 25)

(***************************************************************************)
(* Media files and their tags: the handlers that write the associations,   *)
(* run one after another on a store that createTag and createMediaFile     *)
(* have filled with three tags and two media files.                        *)
(***************************************************************************)
SeedNames == <<(<<"a">>), (<<"b">>), (<<"a", "b">>)>>
SeedHashes == <<(<<"h">>), (<<"k">>)>>

RECURSIVE WithTags(_, _)
WithTags(d, names) ==
    IF names = <<>> THEN d ELSE WithTags(createTag(d, Head(names), 0).db, Tail(names))
RECURSIVE WithMediaFiles(_, _)
WithMediaFiles(d, hashes) ==
    IF hashes = <<>> THEN d
    ELSE WithMediaFiles(createMediaFile(d, Head(hashes), 0).db, Tail(hashes))

SeededDb == WithMediaFiles(WithTags(EmptyDb, SeedNames), SeedHashes)

InitMedia ==
    /\ db = SeededDb
    /\ last = NoCall
    /\ pgPc = "idle"
    /\ pgArgs = NoArgs
    /\ pgData = <<>>
    /\ pgSeen = NoSeen
    /\ pgIo = NoIo
    /\ pgRes = [out |-> "none", env |-> PgNone]
    /\ scan = NoScan
    /\ procEnv = ConfiguredEnv
    /\ cfg = NoCfg
    /\ boot = NoBoot
    /\ calls = NoCalls

\* The ids a caller passes: those of the seeded records.
MdTagIds == {Num(i) : i \in 1..Len(SeedNames)}
MdFileIds == {Num(i) : i \in 1..Len(SeedHashes)}
MdTagIdArrays ==
    {<<x>> : x \in MdTagIds} \cup {<<x, y>> : x, y \in MdTagIds}

MdCall(op, args, r) ==
    /\ last = NoCall
    /\ db' = r.db
    /\ last' = [op |-> op, args |-> args, out |-> r.out, env |-> r.env]
    /\ UNCHANGED <<pgVars, cfgVars, calls>>

MdUpdateMediaFileTags ==
    \E mediaFileID \in MdFileIds, newTagIDs \in MdTagIdArrays, fault \in 0..1 :
        MdCall("updateMediaFileTags", <<mediaFileID, newTagIDs>>,
               updateMediaFileTags(db, mediaFileID, newTagIDs, fault))
MdMigrateMediaFileTag ==
    \E fromTagID \in MdTagIds, toTagID \in MdTagIds, fault \in 0..2 :
        MdCall("migrateMediaFileTag", <<fromTagID, toTagID>>,
               migrateMediaFileTag(db, fromTagID, toTagID, fault))
MdDeleteTag ==
    \E id \in MdTagIds :
        MdCall("deleteTag", <<id>>, deleteTag(db, id, 0))
MdDeleteMediaFile ==
    \E id \in MdFileIds :
        MdCall("deleteMediaFile", <<id>>, deleteMediaFile(db, id, 0))

NextMedia ==
    \/ CrudReturn
    \/ MdUpdateMediaFileTags \/ MdMigrateMediaFileTag
    \/ MdDeleteTag \/ MdDeleteMediaFile

SpecMedia == InitMedia /\ [][NextMedia]_vars

(***************************************************************************)
(* Properties of the media-file tags (under SpecMedia).                    *)
(***************************************************************************)
\* The media files that carry a tag.
Carrying(d, tagId) == {m \in d.mediaFiles : tagId \in TagsOf(d, m.id)}

\* C20: a migrateMediaFileTag(from, to) that returns, with from and to two
\* distinct existing tags, gives every media file that carried from the tag
\* to in its place and leaves its other tags alone; media files that did not
\* carry from keep their tags; the rows returned are exactly the media files
\* that carried from.
C20_MigrateMovesTag ==
    [][(/\ last'.op = "migrateMediaFileTag"
        /\ last'.out = "returned"
        /\ last'.args[1] # last'.args[2]
        /\ \E t \in db.tags : t.id = last'.args[1].v
        /\ \E t \in db.tags : t.id = last'.args[2].v)
         => LET from == last'.args[1].v
                to == last'.args[2].v
            IN /\ \A m \in db.mediaFiles :
                    TagsOf(db', m.id) =
                        IF from \in TagsOf(db, m.id)
                        THEN (TagsOf(db, m.id) \ {from}) \cup {to}
                        ELSE TagsOf(db, m.id)
               /\ Range(last'.env.data) = Carrying(db, from)
               /\ Len(last'.env.data) = Cardinality(Carrying(db, from))
               /\ db'.mediaFiles = db.mediaFiles
               /\ db'.tags = db.tags]_vars

\* Both media files were moved from tag 1 to tag 3; one of them kept tag 2.
C20_Witness ==
    /\ last.op = "migrateMediaFileTag"
    /\ last.out = "returned"
    /\ last.args = <<Num(1), Num(3)>>
    /\ Len(last.env.data) = 2
    /\ TagsOf(db, 1) = {2, 3}
    /\ TagsOf(db, 2) = {3}

\* A tag id that names no tag of the store.
NoSuchTag(d, x) == ~ \E t \in d.tags : t.id = x.v

\* C21: migrateMediaFileTag raises whenever fromTagID or toTagID names no
\* existing tag, whether or not a media file carries the from-tag, and then
\* leaves the tags of every media file as they were.
C21_MigrateRaisesOnMissingTag ==
    [][(/\ last'.op = "migrateMediaFileTag"
        /\ NoSuchTag(db, last'.args[1]) \/ NoSuchTag(db, last'.args[2]))
         => /\ last'.out = "raised"
            /\ db'.links = db.links]_vars

\* C22: an updateMediaFileTags(mediaFileID, newTagIDs) that returns leaves that
\* media file with exactly the listed tags and every other media file with the
\* tags it had; when the media file or a listed tag does not exist the call
\* raises; a call that raises leaves the store as it was; and the call that
\* returned, made again on the store it left, gives that store again.
C22_UpdateSetsExactlyTheTags ==
    [][last'.op = "updateMediaFileTags"
         => LET id == last'.args[1].v
                listed == {last'.args[2][i].v : i \in 1..Len(last'.args[2])}
            IN /\ last'.out = "returned" =>
                     /\ TagsOf(db', id) = listed
                     /\ \A m \in db.mediaFiles :
                            m.id # id => TagsOf(db', m.id) = TagsOf(db, m.id)
                     /\ db'.mediaFiles = db.mediaFiles
                     /\ db'.tags = db.tags
                     /\ updateMediaFileTags(db', last'.args[1], last'.args[2], 0).db = db'
               /\ ((~ \E m \in db.mediaFiles : m.id = id)
                      \/ (\E x \in listed : ~ \E t \in db.tags : t.id = x))
                     => last'.out = "raised"
               /\ last'.out = "raised" => db' = db]_vars

\* Media file 1 went from tag 1 to tags 2 and 3; media file 2 still has tag 1.
C22_Witness ==
    /\ last.op = "updateMediaFileTags"
    /\ last.out = "returned"
    /\ last.args = <<Num(1), <<Num(2), Num(3)>>>>
    /\ TagsOf(db, 1) = {2, 3}
    /\ TagsOf(db, 2) = {1}

\* Every association links a media file and a tag that both exist.
LinksSound(d) ==
    \A l \in d.links :
        /\ \E m \in d.mediaFiles : m.id = l[1]
        /\ \E t \in d.tags : t.id = l[2]

\* C23: a deleteTag(id) that returns deleted true leaves no media file
\* associated with tag id and the media files as they were; a
\* deleteMediaFile(id) that returns deleted true leaves no tag associated with
\* media file id and the tags as they were; and in every reachable state the
\* associations link only records that exist.
C23_DeletesDropAssociations ==
    /\ []LinksSound(db)
    /\ [][/\ (last'.op = "deleteTag" /\ last'.env.flag) =>
                /\ FilesOf(db', last'.args[1].v) = {}
                /\ db'.mediaFiles = db.mediaFiles
          /\ (last'.op = "deleteMediaFile" /\ last'.env.flag) =>
                /\ TagsOf(db', last'.args[1].v) = {}
                /\ db'.tags = db.tags]_vars

\* Tag 1 was deleted; media file 1 keeps its other tag, tag 2.
C23_Witness ==
    /\ last.op = "deleteTag"
    /\ last.env.flag
    /\ last.args = <<Num(1)>>
    /\ TagsOf(db, 1) = {2}
    /\ Cardinality(db.mediaFiles) = 2

(***************************************************************************)
(* The shape of the envelopes (under Spec).                                *)
(***************************************************************************)
\* C24: in every envelope a create, get, update or delete returns, the flag
\* (created, found, updated, deleted) set implies success and data present;
\* success false implies the flag clear and data absent; and success with the
\* flag clear has data absent, except when a create found the record already
\* there, and then the data is that record.
C24_EnvelopeShape ==
    (last.op # "none" /\ last.out = "returned") =>
        /\ last.env.flag => (last.env.success /\ Len(last.env.data) = 1)
        /\ ~last.env.success => (~last.env.flag /\ last.env.data = <<>>)
        /\ (last.env.success /\ ~last.env.flag /\ last.env.data # <<>>) =>
              /\ last.op \in CreateOps
              /\ last.env.message[2] = "already exists."
              /\ Len(last.env.data) = 1
              /\ last.env.data[1] \in SameKey(db, last)

\* createMediaFile found the media file with that hash.
C24_Witness ==
    /\ last.op = "createMediaFile"
    /\ last.env.success
    /\ ~last.env.flag
    /\ last.env.data # <<>>
    /\ last.env.data[1] \in db.mediaFiles

(***************************************************************************)
(* The rows of a page (under SpecPage).                                    *)
(***************************************************************************)
\* Pages 1..upto of size n, each fetched by getPaginated, one after another.
RECURSIVE PagesUpTo(_, _, _, _)
PagesUpTo(d, where, n, upto) ==
    IF upto = 0 THEN <<>>
    ELSE PagesUpTo(d, where, n, upto - 1)
         \o getPaginated(d, "tag", where, Num(upto), Num(n), 0).env.data

\* C25: a getPaginated call that succeeds, with no write during the call,
\* returns the rows at positions (page-1)*pageSize+1 .. min(page*pageSize,
\* total) of the matching rows in the order of the orderBy; and on any store
\* the pages 1..ceil(total/pageSize) put end to end are all matching rows,
\* each once, in that order.
C25_PageIsSliceOfOrderedRows ==
    /\ [](\A where \in Wheres, n \in 1..MaxPageSize :
             PagesUpTo(db, where, n, CeilDiv(tagCount(db, where), n))
                 = OrderByName({t \in db.tags : MatchesWhere(t, where)}))
    /\ [][(pgPc = "count" /\ pgPc' = "done" /\ pgRes'.env.success /\ ~pgSeen.dirty)
            => LET rows == OrderByName({t \in db.tags : MatchesWhere(t, pgArgs.where)})
                   from == (AskedPage.v - 1) * AskedPageSize.v + 1
                   to == Min(AskedPage.v * AskedPageSize.v, Len(rows))
               IN pgRes'.env.data = SubSeq(rows, from, to)]_vars

\* Page 2 of size 2 over tags b, a, ab created in that order: the row of b.
C25_Witness ==
    /\ PgSucceeded
    /\ ~pgSeen.dirty
    /\ AskedPage.v = 2
    /\ AskedPageSize.v = 2
    /\ pgRes.env.total = 3
    /\ pgRes.env.data = <<Tag(1, <<"b">>)>>

(***************************************************************************)
(* Boards and the tags named after them (under SpecBoards).                *)
(***************************************************************************)
\* The call created a board, or gave a board a new name.
NamedABoard(call) ==
    \/ call.op = "createWebsiteBoard" /\ call.env.flag
    \/ /\ call.op = "updateWebsiteBoard"
       /\ call.env.flag
       /\ call.env.data[1].name # call.args[2]

\* C26: after createWebsiteBoard returns created true for a board named n, and
\* after updateWebsiteBoard returns updated true having changed a board's name
\* to n, exactly one tag named n is in the store; the tags that were there are
\* unchanged, and when one of them is named n no tag is created.
C26_BoardNameHasTag ==
    [][NamedABoard(last')
         => LET n == last'.env.data[1].name
            IN /\ Cardinality({t \in db'.tags : t.name = n}) = 1
               /\ db.tags \subseteq db'.tags
               /\ (\E t \in db.tags : t.name = n) => db'.tags = db.tags]_vars

\* Board 2 was created with the name of the deleted board 1; tag 1 is its tag.
C26_Witness ==
    /\ last.op = "createWebsiteBoard"
    /\ last.env.flag
    /\ last.env.data[1] = Board(2, <<"a">>, 1, NoRef)
    /\ db.tags = {Tag(1, <<"a">>)}
    /\ Cardinality(db.boards) = 1

(***************************************************************************)
(* The board hierarchy: createWebsiteBoard and deleteWebsiteBoard, run one *)
(* after another on a store that createWebSite has filled with two         *)
(* websites.                                                               *)
(***************************************************************************)
MaxForestBoards == 3    \* boards ever created in the hierarchy

RECURSIVE WithWebsites(_, _)
WithWebsites(d, urls) ==
    IF urls = <<>> THEN d
    ELSE WithWebsites(createWebSite(d, Head(urls), 0).db, Tail(urls))

InitForest ==
    /\ db = WithWebsites(EmptyDb, <<(<<"u">>), (<<"v">>)>>)
    /\ last = NoCall
    /\ pgPc = "idle"
    /\ pgArgs = NoArgs
    /\ pgData = <<>>
    /\ pgSeen = NoSeen
    /\ pgIo = NoIo
    /\ pgRes = [out |-> "none", env |-> PgNone]
    /\ scan = NoScan
    /\ procEnv = ConfiguredEnv
    /\ cfg = NoCfg
    /\ boot = NoBoot
    /\ calls = NoCalls

FrCall(op, args, r) ==
    /\ last = NoCall
    /\ r.db.seq["board"] - 1 <= MaxForestBoards
    /\ db' = r.db
    /\ last' = [op |-> op, args |-> args, out |-> r.out, env |-> r.env]
    /\ UNCHANGED <<pgVars, cfgVars, calls>>

FrCreateWebsiteBoard ==
    \E websiteID \in {Num(i) : i \in 0..3}, name \in BoardNames, parent \in ParentInputs,
       fault \in 0..6 :
        FrCall("createWebsiteBoard", <<websiteID, name, parent>>,
               createWebsiteBoard(db, websiteID, name, parent, fault))
FrDeleteWebsiteBoard ==
    \E websiteID \in {Num(i) : i \in 0..3}, name \in BoardNames, fault \in 0..3 :
        FrCall("deleteWebsiteBoard", <<websiteID, name>>,
               deleteWebsiteBoard(db, websiteID, name, fault))

NextForest == CrudReturn \/ FrCreateWebsiteBoard \/ FrDeleteWebsiteBoard

SpecForest == InitForest /\ [][NextForest]_vars

(***************************************************************************)
(* Properties of the board hierarchy (under SpecForest).                   *)
(***************************************************************************)
\* The k-th board up the parent links from board id, NoRef when there is none.
RECURSIVE Climb(_, _, _)
Climb(d, id, k) ==
    IF k = 0 \/ id = NoRef THEN id
    ELSE LET here == {b \in d.boards : b.id = id}
         IN IF here = {} THEN NoRef ELSE Climb(d, PickOne(here).parentId, k - 1)

\* Every parent is an existing board of the same website; no board is its own
\* ancestor.
Forest(d) ==
    /\ \A b \in d.boards :
          b.parentId # NoRef =>
              \E q \in d.boards : q.id = b.parentId /\ q.websiteId = b.websiteId
    /\ \A b \in d.boards, k \in 1..MaxForestBoards : Climb(d, b.id, k) # b.id

\* A createWebsiteBoard call that passes a parentBoardName (one of `given`)
\* naming no board of the website.
NamesNoParent(d, call, given) ==
    /\ call.op = "createWebsiteBoard"
    /\ call.args[3] \in given
    /\ BoardsNamed(d, call.args[3].s, call.args[1].v) = {}

MaxRaceRecords == 2    \* records ever created by the concurrent callers

RaceOps == {"createTag", "createWebSite", "createMediaFile"}
RaceKeys(op) ==
    CASE op = "createTag" -> Names
      [] op = "createWebSite" -> Urls
      [] OTHER -> Hashes
RacePrefix(op) ==
    CASE op = "createTag" -> "Tag"
      [] op = "createWebSite" -> "Website"
      [] OTHER -> "MediaFile"

\* findUnique by the unique key of the model, and create of the model.
RaceFindUnique(d, op, key) ==
    CASE op = "createTag" -> {t \in d.tags : t.name = key}
      [] op = "createWebSite" -> {w \in d.websites : w.url = key}
      [] OTHER -> {m \in d.mediaFiles : m.hash = key}
RaceCreate(d, op, key) ==
    CASE op = "createTag" -> tagCreate(d, key)
      [] op = "createWebSite" -> websiteCreate(d, key)
      [] OTHER -> mediaFileCreate(d, key)

\* Entry of a create call and its findUnique.
RcFindUnique(c) ==
    /\ calls[c].pc = "idle"
    /\ \E op \in RaceOps :
         \E key \in RaceKeys(op) :
           LET preExisting == RaceFindUnique(db, op, key)
           IN calls' = [calls EXCEPT ![c] =
                 IF preExisting # {}
                 THEN [pc |-> "done", op |-> op, key |-> key, fresh |-> FALSE,
                       env |-> creationFoundPrexisting(PickOne(preExisting),
                                                       RacePrefix(op))]
                 ELSE [pc |-> "create", op |-> op, key |-> key, fresh |-> TRUE,
                       env |-> IdleCall.env]]
    /\ UNCHANGED <<db, last, pgVars, cfgVars>>

\* The create of a call that found nothing, and the envelope it returns.
RcCreate(c) ==
    /\ calls[c].pc = "create"
    /\ LET w == RaceCreate(db, calls[c].op, calls[c].key)
       IN /\ Created(w.db) <= MaxRaceRecords
          /\ db' = w.db
          /\ calls' = [calls EXCEPT ![c].pc = "done",
                                    ![c].env =
                          IF w.ok
                          THEN creationSuccessful(w.row[1], RacePrefix(calls[c].op))
                          ELSE creationError(generatePrismaErrorMessage(w.error))]
    /\ UNCHANGED <<last, pgVars, cfgVars>>

\* The caller has the envelope and may call again.
RcReturn(c) ==
    /\ calls[c].pc = "done"
    /\ calls' = [calls EXCEPT ![c] = IdleCall]
    /\ UNCHANGED <<db, last, pgVars, cfgVars>>

NextRace == \E c \in Callers : RcFindUnique(c) \/ RcCreate(c) \/ RcReturn(c)

SpecRace == Init /\ [][NextRace]_vars

(***************************************************************************)
(* Properties of concurrent creates (under SpecRace).                      *)
(***************************************************************************)
\* C28: of two create calls for the same key that both ended, the key not
\* existing when one of them looked it up, one returns created true and the
\* other returns success true, created false and the record the first one
\* created; neither returns success false.
C28_OneCreatesOtherFinds ==
    \A c, e \in Callers :
        (/\ c # e
         /\ calls[c].pc = "done" /\ calls[e].pc = "done"
         /\ calls[c].op = calls[e].op /\ calls[c].key = calls[e].key
         /\ calls[c].fresh)
            => /\ calls[c].env.success /\ calls[e].env.success
               /\ calls[c].env.flag # calls[e].env.flag
               /\ calls[c].env.data = calls[e].env.data

(***************************************************************************)
(* createWebsiteBoard as a whole (under SpecForest).                       *)
(***************************************************************************)
\* C29: a createWebsiteBoard call that returns created false, whatever its
\* success, leaves no board in the store that it created.
C29_NoBoardWithoutCreated ==
    [][(last'.op = "createWebsiteBoard" /\ ~last'.env.flag)
         => db'.boards = db.boards]_vars

(***************************************************************************)
(* References between websites, boards, pins and media files (under        *)
(* SpecBoards).                                                            *)
(***************************************************************************)
\* Every reference of a board or a pin leads to a record of the store.
Integrity(d) ==
    /\ \A b \in d.boards : \E w \in d.websites : w.id = b.websiteId
    /\ \A p \in d.pins : \E b \in d.boards : b.id = p.boardId
    /\ \A p \in d.pins :
          p.mediaFileId # NoRef => \E m \in d.mediaFiles : m.id = p.mediaFileId

\* A createBoardPin call whose boardID, or whose mediaFileID when one is
\* passed, is the id of no record.
PinsNothing(d, call) ==
    /\ call.op = "createBoardPin"
    /\ \/ ~ \E b \in d.boards : b.id = call.args[1].v
       \/ /\ call.args[2] # Undefined
          /\ ~ \E m \in d.mediaFiles : m.id = call.args[2].v

\* C30: in every reachable store every board references an existing website,
\* every pin an existing board and, when it has a media file, an existing
\* media file, deletes included; and a createBoardPin that names a board or a
\* media file that does not exist returns created false and creates no pin.
C30_ReferencesLeadToRecords ==
    /\ []Integrity(db)
    /\ [][PinsNothing(db, last') => (~last'.env.flag /\ db'.pins = db.pins)]_vars

====
